---------------------------- MODULE Spec2Model ----------------------------
(***************************************************************************)
(* CoTaskLib (Core.hpp): the registry of top-level tasks (detail::Backend) *)
(* and the scoped handles (ScopedTaskRunner) that spawn into it.           *)
(*                                                                         *)
(* The library is single-threaded but re-entrant: a unit's body and the    *)
(* finish/cancel callbacks are user code that runs in the middle of        *)
(* Backend::update, Backend::Remove and the spawn, and may itself call the *)
(* API.  The model therefore keeps the C++ call stack explicitly: `stack`  *)
(* is the sequence of active frames, the last one executing.  Library code *)
(* between two points where user code runs is one atomic step.             *)
(***************************************************************************)
EXTENDS Integers, Sequences, FiniteSets, TLC

\* ------------------------------------------------------------------ bounds
MaxTasks == 2      \* tasks the program spawns
MaxNesting == 2    \* API calls in progress at once, each inside user code of the last

Tasks   == 1 .. MaxTasks
IDs     == 1 .. (MaxTasks + 1)      \* AwaiterID values: all that are issued, and one that never is
Handles == 1 .. 2                   \* 1: the handle the spawn returns, 2: the one it is moved into

VARIABLES
    m_nextAwaiterID,                \* Backend::m_nextAwaiterID
    m_currentAwaiterID,             \* Backend::m_currentAwaiterID, 0 = none
    m_currentAwaiterRemovalNeeded,  \* Backend::m_currentAwaiterRemovalNeeded
    m_awaiterEntries,               \* Backend::m_awaiterEntries: AwaiterID -> task
    unit,                           \* per task: state of its coroutine
    awaiterID,                      \* per task: the AwaiterID Backend::Add gave it, 0 = none
    m_id,                           \* per task and handle: ScopedTaskRunner::m_id, "held": the
                                    \* task's id, "none": no id (or no such handle),
                                    \* "forgotten": no id, forget() has taken it
    finishCalls,                    \* per task: invocations of the user's finish callback
    cancelCalls,                    \* per task: invocations of the user's cancel callback
    stack,                          \* the call stack, innermost frame last
    sweep,                          \* ids resumed by the update() running or just over, in order
    faults,                         \* tasks whose end callback threw in that update()
    thrown,                         \* the exception arriving in the executing user code:
                                    \* the task whose callback threw it, 0 = none
    halted                          \* std::terminate was called or the process crashed

vars == <<m_nextAwaiterID, m_currentAwaiterID, m_currentAwaiterRemovalNeeded,
          m_awaiterEntries, unit, awaiterID, m_id, finishCalls, cancelCalls,
          stack, sweep, faults, thrown, halted>>

\* ------------------------------------------------------------------ units
\* A chain of coroutines: unit 1 is the one the program resumes, and the body
\* of unit u may co_await unit u + 1.  The units have no concurrent tasks
\* attached with with().
MaxChain  == 3     \* units in the chain
MaxResult == 2     \* distinct results a body can co_return
MaxDelay  == 2     \* frames and resumes are counted up to here, MaxDelay + 1 = more

Units   == 1 .. MaxChain
Results == 1 .. MaxResult

VARIABLES
    coro,               \* per unit: "none" (not created), "initial" (at initial_suspend),
                        \* "running", "suspended", "final" (at final_suspend: done())
    m_pSubAwaiter,      \* PromiseBase::m_pSubAwaiter: the awaited unit, 0 = nullptr
    m_isResultSet,      \* Promise::m_isResultSet
    m_resultConsumed,   \* Promise::m_resultConsumed
    m_value,            \* Promise::m_value: what was set into the std::promise
    received,           \* per unit: what its last co_await evaluated to
    coStack,            \* the calls of resume() in progress, innermost last
    inflight,           \* the exception thrown into the executing body
    ret,                \* what the program's last call of value() on unit 1 did
    valueCalls,         \* calls of value() on unit 1 since it completed: 0, 1, 2 = more
    pending,            \* m_pSubAwaiter as it was when the program last called resume()
    ran,                \* the units whose body has executed since that call began
    frames,             \* per unit: the co_await NextFrame() at which the units it
                        \* awaits have suspended since its co_await began
    resumesSince        \* per unit: the calls of its resume() since its co_await began

coVars == <<coro, m_pSubAwaiter, m_isResultSet, m_resultConsumed, m_value,
            received, coStack, inflight, ret, valueCalls, pending, ran,
            frames, resumesSince>>

\* A result ("value", v), the exception thrown by the body of unit e
\* ("exception", e), one of the two Errors of Promise::value, or nothing.
Outcome(kind, of) == [kind |-> kind, of |-> of]
NoOutcome == Outcome("none", 0)

CoInit ==
    /\ coro = [u \in Units |-> IF u = 1 THEN "initial" ELSE "none"]
    /\ m_pSubAwaiter = [u \in Units |-> 0]
    /\ m_isResultSet = [u \in Units |-> FALSE]
    /\ m_resultConsumed = [u \in Units |-> FALSE]
    /\ m_value = [u \in Units |-> NoOutcome]
    /\ received = [u \in Units |-> NoOutcome]
    /\ coStack = <<>>
    /\ inflight = NoOutcome
    /\ ret = NoOutcome
    /\ valueCalls = 0
    /\ pending = [u \in Units |-> 0]
    /\ ran = {}
    /\ frames = [u \in Units |-> 0]
    /\ resumesSince = [u \in Units |-> 0]

\* ------------------------------------------------------------------ All and Any
\* The program creates MaxArgs tasks, may resume them itself, and passes them
\* to All or to Any; the task that call returns is then resumed once per tick.
MaxArgs  == 2     \* arguments of All / Any
MaxTicks == 3     \* ticks on which the task of All / Any is resumed

Args == 1 .. MaxArgs

VARIABLES
    combinator,         \* "none" (not called yet), "All" or "Any"
    args,               \* per argument: coro, m_value, m_resultConsumed of its task
    task,               \* the task of All / Any: coro, m_value, and the tuple it returned
    tick,               \* the number of the tick running or just over
    resumed,            \* the arguments whose body was resumed in that tick, in order
    finishedAt,         \* per argument: the tick in which it finished, 0 = before the
                        \* call, -1 = not finished
    completedAt         \* the tick in which the task of All / Any completed, -1 = not yet

cmbVars == <<combinator, args, task, tick, resumed, finishedAt, completedAt>>

NoTuple == [i \in Args |-> NoOutcome]

CmbInit ==
    /\ combinator = "none"
    /\ args = [i \in Args |-> [coro |-> "initial", m_value |-> NoOutcome,
                                m_resultConsumed |-> FALSE]]
    /\ task = [coro |-> "none", m_value |-> NoOutcome, tuple |-> NoTuple]
    /\ tick = 0
    /\ resumed = <<>>
    /\ finishedAt = [i \in Args |-> -1]
    /\ completedAt = -1

\* ------------------------------------------------------------------ TaskFinishSource
\* One TaskFinishSource<TResult>, the tasks its waitForResult() returned, and
\* one TaskFinishSource<void>.
MaxWaiters == 2   \* tasks obtained from waitForResult()
MaxCalls   == 4   \* calls of requestFinish and result() that are recorded

Waiters == 1 .. MaxWaiters

VARIABLES
    source,             \* TaskFinishSource: m_result (0 = nullptr), m_resultConsumed
    voidSource,         \* TaskFinishSource<void>: m_finishRequested
    waiters,            \* per task of waitForResult(): coro and the value it returned
    calls,              \* the calls made on the TaskFinishSource and what each did, in
                        \* order; a waitForResult() task is recorded when it returns
    voidCalls           \* what the calls of TaskFinishSource<void>::requestFinish returned

tfsVars == <<source, voidSource, waiters, calls, voidCalls>>

TfsInit ==
    /\ source = [m_result |-> 0, m_resultConsumed |-> FALSE]
    /\ voidSource = [m_finishRequested |-> FALSE]
    /\ waiters = [w \in Waiters |-> [coro |-> "none", m_value |-> NoOutcome]]
    /\ calls = <<>>
    /\ voidCalls = <<>>

\* ---------------------------------------------------------------- UpdaterTask
\* UpdaterTask<TResult>(updateFunc) (Core.hpp 1517-1532): its local
\* TaskFinishSource, its coroutine, and one record for each resume() of the task.
\* What updateFunc does with the source in one invocation is a script: a
\* sequence of calls, v > 0 for requestFinish(v) and 0 for result().
MaxOps == 3
MaxResumes == 4

VARIABLES taskFinishSource, updater, resumes

\* detail::OrderedExecutor (Core.hpp 112-279): m_nextID; m_callers, the keys
\* (id, sortingOrder) of the map, a callback being known by its id;
\* sortingOrderFunc, what each caller's sortingOrderFunc returns now; cursor,
\* the key the loop of call() stands on (id 0: no call in progress); crashed,
\* the program has run into undefined behaviour and stopped. History: invoked,
\* the keys whose callbacks the current or last call() has invoked; snapshot,
\* m_callers when that call() began its loop; removed, the ids that were
\* issued and for which remove(id) has returned. m_callerKeyByID, the index
\* from an id to the key its entry is stored at; executorError, the Error the
\* executor has thrown ("none" as long as it has thrown none). History:
\* rebucketed, the ids whose entries the last refreshSortingOrder() has put
\* under another key.
MaxCallers == 3
MaxOrder == 2

VARIABLES m_nextID, m_callers, sortingOrderFunc, cursor, crashed, invoked, snapshot, removed,
          m_callerKeyByID, executorError, rebucketed

\* MultiRunner (Core.hpp 726-790): m_runners, of each aggregated
\* ScopedTaskRunner what its done() returns; waitTask, the coroutines of one
\* waitUntilAllDone() ("all") and one waitUntilAnyDone() ("any") task.
MaxRunners == 3

VARIABLES m_runners, waitTask

\* Task::with (Core.hpp 1023-1081): m_handle, the coroutine of the primary
\* task; m_concurrentTasksBefore and m_concurrentTasksAfter, the coroutines of
\* the attached tasks; resumeLog, the resume() calls and the own step made by
\* the last resume() of the primary, in order; ownSteps, the steps the body of
\* the primary has made. A task whose body ended with an exception is
\* "fault": done, the exception stored in its promise by unhandled_exception.
\* For the primary that is ownFault; valueRet is what value() of the primary
\* did: "unread" (not called), "value" or "exception".
MaxCompanions == 2
MaxSteps == 3

VARIABLES m_handle, m_concurrentTasksBefore, m_concurrentTasksAfter, resumeLog, ownSteps,
          ownFault, valueRet

\* Backend::s_pInstance (Core.hpp 285) and the static operations of Backend
\* that test it: s_pInstance, whether the instance exists; lastOp, what the
\* last static operation did: whether it raised an Error, how many steps of
\* the given task's body it ran, whether it called the finish callback.
\* AsyncThread (Core.hpp 1926-1934): worker, the thread started by
\* std::async; asyncTask, the coroutine of the task, "destroying" while the
\* caller that destroys the frame stands in the destructor of the future.
VARIABLES s_pInstance, lastOp, worker, asyncTask

auxVars == <<taskFinishSource, updater, resumes,
             m_nextID, m_callers, sortingOrderFunc, cursor, crashed, invoked, snapshot, removed,
             m_callerKeyByID, executorError, rebucketed,
             m_runners, waitTask,
             m_handle, m_concurrentTasksBefore, m_concurrentTasksAfter, resumeLog, ownSteps,
             ownFault, valueRet,
             s_pInstance, lastOp, worker, asyncTask>>

AuxInit ==
    /\ taskFinishSource = [m_result |-> 0, m_resultConsumed |-> FALSE]
    /\ updater = [coro |-> "initial", m_value |-> NoOutcome]
    /\ resumes = <<>>
    /\ m_nextID = 1
    /\ m_callers = {}
    /\ sortingOrderFunc = [id \in 1 .. MaxCallers |-> 1]
    /\ cursor = [id |-> 0, sortingOrder |-> 0]
    /\ crashed = FALSE
    /\ invoked = <<>>
    /\ snapshot = {}
    /\ removed = {}
    /\ m_callerKeyByID = <<>>
    /\ executorError = "none"
    /\ rebucketed = {}
    /\ m_runners = <<>>
    /\ waitTask = [all |-> "initial", any |-> "initial"]
    /\ m_handle = "initial"
    /\ m_concurrentTasksBefore = <<>>
    /\ m_concurrentTasksAfter = <<>>
    /\ resumeLog = <<>>
    /\ ownSteps = 0
    /\ ownFault = FALSE
    /\ valueRet = "unread"
    /\ s_pInstance = FALSE
    /\ lastOp = [op |-> "none", error |-> FALSE, bodySteps |-> 0, finishCallback |-> FALSE]
    /\ worker = "none"
    /\ asyncTask = "none"

\* The state as one record, so that library code can be written as functions.
State ==
    [ m_nextAwaiterID |-> m_nextAwaiterID,
      m_currentAwaiterID |-> m_currentAwaiterID,
      m_currentAwaiterRemovalNeeded |-> m_currentAwaiterRemovalNeeded,
      m_awaiterEntries |-> m_awaiterEntries,
      unit |-> unit,
      awaiterID |-> awaiterID,
      m_id |-> m_id,
      finishCalls |-> finishCalls,
      cancelCalls |-> cancelCalls,
      stack |-> stack,
      sweep |-> sweep,
      faults |-> faults,
      thrown |-> thrown,
      halted |-> halted ]

Becomes(S) ==
    /\ m_nextAwaiterID' = S.m_nextAwaiterID
    /\ m_currentAwaiterID' = S.m_currentAwaiterID
    /\ m_currentAwaiterRemovalNeeded' = S.m_currentAwaiterRemovalNeeded
    /\ m_awaiterEntries' = S.m_awaiterEntries
    /\ unit' = S.unit
    /\ awaiterID' = S.awaiterID
    /\ m_id' = S.m_id
    /\ finishCalls' = S.finishCalls
    /\ cancelCalls' = S.cancelCalls
    /\ stack' = S.stack
    /\ sweep' = S.sweep
    /\ faults' = S.faults
    /\ thrown' = S.thrown
    /\ halted' = S.halted
    /\ UNCHANGED <<coVars, cmbVars, tfsVars, auxVars>>

\* ------------------------------------------------------------------ frames
Frame(op, t, id, h, kind) ==
    [op |-> op, t |-> t, id |-> id, h |-> h, kind |-> kind, exc |-> 0, rethrow |-> FALSE]

Top(S)     == S.stack[Len(S.stack)]
Pop(S)     == [S EXCEPT !.stack = SubSeq(@, 1, Len(@) - 1)]
Push(S, f) == [S EXCEPT !.stack = Append(@, f)]

Min(s) == CHOOSE x \in s : \A y \in s : x <= y

\* Invocations are counted as 0, 1 and 2 = more than once.
Bump(n) == IF n < 2 THEN n + 1 ELSE 2

\* ------------------------------------------------------------------ the unit
\* CoroutineHandleWrapper::done, seen through Task::done and TaskAwaiter::done.
\* "value": the body returned; "fault": unhandled_exception stored an exception.
Done(u) == u \in {"value", "fault"}

\* The user's finish callback starts running.
CallFinish(S, t) ==
    Push([S EXCEPT !.finishCalls[t] = Bump(@)], Frame("cb", t, 0, 0, "finish"))

\* The user's cancel callback starts running; rethrow: it is the catch block of
\* the finish wrapper, which throws the unit's fault again when the callback returns.
CallCancel(S, t, rethrow) ==
    Push([S EXCEPT !.cancelCalls[t] = Bump(@)],
         [Frame("cb", t, 0, 0, "cancel") EXCEPT !.rethrow = rethrow])

\* A wrapper without the catch block: the finish callback whatever value() does.
finishCallbackTypeErased_NoCatch(S, t) == CallFinish(S, t)

\* finishCallbackTypeErased, the lambda Backend::Add stores: value() throws the
\* unit's fault, on which the cancel callback is called and the fault thrown on.
finishCallbackTypeErased(S, t) ==
    IF S.unit[t] = "fault" THEN CallCancel(S, t, TRUE) ELSE CallFinish(S, t)

\* fnCallFinishCallback of ResumeAwaiterOnceAndRegisterIfNotDone: the same, for a
\* unit that was never registered.
fnCallFinishCallback(S, t) ==
    IF S.unit[t] = "fault" THEN CallCancel(S, t, TRUE) ELSE CallFinish(S, t)

\* AwaiterEntry::callEndCallback
callEndCallback(S, id) ==
    LET t == S.m_awaiterEntries[id]
    IN  IF Done(S.unit[t]) THEN finishCallbackTypeErased(S, t)
        ELSE CallCancel(S, t, FALSE)

\* std::map::erase on m_awaiterEntries
EraseEntry(e, id) == [k \in (DOMAIN e) \ {id} |-> e[k]]

\* the map iterator: the first key after id, 0 = end()
NextEntry(e, id) ==
    LET later == {k \in DOMAIN e : k > id}
    IN  IF later = {} THEN 0 ELSE Min(later)


\* ------------------------------------------------------------------ Backend::update
\* Head of the loop of Backend::update with the iterator at `it` (0 = end()):
\* the entry becomes the current one and its awaiter is resumed, or the loop is
\* left, the current id reset and the first captured fault thrown to the caller.
\* The frame of update() keeps the iterator in its id.
UpdateLoop(S, it) ==
    IF it = 0
    THEN [Pop(S) EXCEPT !.m_currentAwaiterID = 0, !.thrown = Top(S).exc]
    ELSE LET t == S.m_awaiterEntries[it]
         IN  Push([S EXCEPT !.m_currentAwaiterID = it,
                            !.sweep = Append(@, it),
                            !.unit[t] = "running",
                            !.stack[Len(S.stack)].id = it],
                  Frame("body", t, it, 0, "update"))

\* Faulty variant: update() sweeps the entries that were registered when it
\* began, and ends at the first one registered since.
UpdateAfterResume_SkipsNew(S) ==
    LET id == Top(S).id
        t  == S.m_awaiterEntries[id]
        nx == NextEntry(S.m_awaiterEntries, id)
    IN  IF id \notin DOMAIN S.m_awaiterEntries
        THEN [S EXCEPT !.halted = TRUE]
        ELSE IF S.m_currentAwaiterRemovalNeeded \/ Done(S.unit[t])
        THEN callEndCallback(S, id)
        ELSE UpdateLoop(S, IF nx >= Top(S).h THEN 0 ELSE nx)

\* Backend::update after entry.awaiter->resume() has come back. `it` and
\* `entry` are locals of update(): when the entry was erased during the resume
\* (by an update() called from inside it) they dangle, and the program stops.
UpdateAfterResume(S) ==
    LET id == Top(S).id
        t  == S.m_awaiterEntries[id]
    IN  IF id \notin DOMAIN S.m_awaiterEntries
        THEN [S EXCEPT !.halted = TRUE]
        ELSE IF S.m_currentAwaiterRemovalNeeded \/ Done(S.unit[t])
        THEN callEndCallback(S, id)
        ELSE UpdateLoop(S, NextEntry(S.m_awaiterEntries, id))

\* Faulty variant: an exception of the end callback leaves update() at once.
UpdateAfterEndCallback_Propagates(S, raised) ==
    LET id == S.m_currentAwaiterID
        t  == S.m_awaiterEntries[id]
        S2 == [S EXCEPT !.m_awaiterEntries = EraseEntry(@, id),
                        !.m_currentAwaiterRemovalNeeded = FALSE]
    IN  IF raised
        THEN [Pop(S2) EXCEPT !.m_currentAwaiterID = 0, !.thrown = t,
                             !.faults = @ \cup {t}]
        ELSE UpdateLoop(S2, NextEntry(S2.m_awaiterEntries, id))

\* Faulty variant: every exception of an end callback replaces the one kept.
UpdateAfterEndCallback_KeepsLast(S, raised) ==
    LET id == S.m_currentAwaiterID
        t  == S.m_awaiterEntries[id]
        n  == Len(S.stack)
        S1 == IF raised
              THEN [S EXCEPT !.stack[n].exc = t, !.faults = @ \cup {t}]
              ELSE S
        S2 == [S1 EXCEPT !.m_awaiterEntries = EraseEntry(@, id),
                         !.m_currentAwaiterRemovalNeeded = FALSE]
    IN  UpdateLoop(S2, NextEntry(S2.m_awaiterEntries, id))

\* Faulty variant: after the erase the iterator is back at begin().
UpdateAfterEndCallback_Restarts(S, raised) ==
    LET id == S.m_currentAwaiterID
        t  == S.m_awaiterEntries[id]
        n  == Len(S.stack)
        S1 == IF raised
              THEN [S EXCEPT !.stack[n].exc = IF @ = 0 THEN t ELSE @,
                             !.faults = @ \cup {t}]
              ELSE S
        S2 == [S1 EXCEPT !.m_awaiterEntries = EraseEntry(@, id),
                         !.m_currentAwaiterRemovalNeeded = FALSE]
    IN  UpdateLoop(S2, NextEntry(S2.m_awaiterEntries, 0))

\* Backend::update after entry.callEndCallback() has come back or thrown: the
\* first exception is kept, the entry erased, the flag cleared, the loop goes on.
UpdateAfterEndCallback(S, raised) ==
    LET id == Top(S).id
        t  == S.m_awaiterEntries[id]
        n  == Len(S.stack)
        S1 == IF raised
              THEN [S EXCEPT !.stack[n].exc = IF @ = 0 THEN t ELSE @,
                             !.faults = @ \cup {t}]
              ELSE S
        S2 == [S1 EXCEPT !.m_awaiterEntries = EraseEntry(@, id),
                         !.m_currentAwaiterRemovalNeeded = FALSE]
    IN  IF id \notin DOMAIN S.m_awaiterEntries
        THEN [S EXCEPT !.halted = TRUE]
        ELSE UpdateLoop(S2, NextEntry(S2.m_awaiterEntries, id))

\* Backend::update from its first line. For the record its frame keeps in h
\* the m_nextAwaiterID it began with: the ids from there on are registered
\* while it runs.
BackendUpdate(S) ==
    UpdateLoop(Push(S, Frame("update", 0, 0, S.m_nextAwaiterID, "")),
               NextEntry(S.m_awaiterEntries, 0))

\* ------------------------------------------------------------------ spawn
\* Faulty variant: Add hands out m_nextAwaiterID without advancing it.
BackendAdd_NoIncrement(S, t) ==
    LET id == S.m_nextAwaiterID
    IN  [Pop(S) EXCEPT !.m_awaiterEntries = [k \in (DOMAIN @) \cup {id} |->
                                                IF k = id THEN t ELSE @[k]],
                       !.awaiterID[t] = id,
                       !.m_id[t][1] = "held"]

\* Backend::Add, and the ScopedTaskRunner constructor taking the id it returns.
BackendAdd(S, t) ==
    LET id == S.m_nextAwaiterID
    IN  [Pop(S) EXCEPT !.m_nextAwaiterID = id + 1,
                       !.m_awaiterEntries = [k \in (DOMAIN @) \cup {id} |->
                                                IF k = id THEN t ELSE @[k]],
                       !.awaiterID[t] = id,
                       !.m_id[t][1] = "held"]

\* Faulty variant: the unit is registered whatever its first resume did.
SpawnAfterResume_AlwaysRegisters(S) ==
    BackendAdd(S, Top(S).t)

\* ResumeAwaiterOnceAndRegisterIfNotDone after awaiter.resume() has come back.
SpawnAfterResume(S) ==
    LET t == Top(S).t
    IN  IF Done(S.unit[t]) THEN fnCallFinishCallback(S, t) ELSE BackendAdd(S, t)

\* ResumeAwaiterOnceAndRegisterIfNotDone after fnCallFinishCallback: it returns
\* none into the new handle, or the exception leaves the constructor and no
\* handle exists.
SpawnAfterCallback(S, raised) ==
    LET t == Top(S).t
    IN  IF raised
        THEN [Pop(S) EXCEPT !.thrown = t]
        ELSE Pop(S)

\* ScopedTaskRunner's constructor / Task::runScoped: pre is the state of the
\* task handed in ("suspended": created and not yet started).
ResumeAwaiterOnceAndRegisterIfNotDone(S, t, pre) ==
    LET S1 == Push([S EXCEPT !.unit[t] = pre], Frame("spawn", t, 0, 0, ""))
    IN  IF Done(pre) THEN fnCallFinishCallback(S1, t)
        ELSE Push([S1 EXCEPT !.unit[t] = "running"], Frame("body", t, 0, 0, "spawn"))

\* ------------------------------------------------------------------ Backend::Remove
\* Control is back in the caller of Backend::Remove: requestCancel resets m_id,
\* the destructor is over.
RemoveReturn(S, via, t, h) ==
    IF via = "requestCancel" THEN [S EXCEPT !.m_id[t][h] = "none"] ELSE S

\* Faulty variant: the entry being resumed is removed on the spot.
BackendRemove_NoDeferral(S, id, via, t, h) ==
    IF id \in DOMAIN S.m_awaiterEntries
    THEN callEndCallback(Push(S, Frame("Remove", S.m_awaiterEntries[id], id, h, via)), id)
    ELSE RemoveReturn(S, via, t, h)

\* Backend::Remove(id), called by via: requestCancel of handle h of task t, or
\* that handle's destructor ("dtor").
BackendRemove(S, id, via, t, h) ==
    IF id = S.m_currentAwaiterID
    THEN RemoveReturn([S EXCEPT !.m_currentAwaiterRemovalNeeded = TRUE], via, t, h)
    ELSE IF id \in DOMAIN S.m_awaiterEntries
    THEN callEndCallback(Push(S, Frame("Remove", S.m_awaiterEntries[id], id, h, via)), id)
    ELSE RemoveReturn(S, via, t, h)

\* Faulty variant: Remove calls the end callback and leaves the entry in the map.
RemoveAfterCallback_NoErase(S, raised, ub) ==
    LET f == Top(S)
    IN  IF raised
        THEN IF f.kind = "dtor"
             THEN [Pop(S) EXCEPT !.halted = TRUE]
             ELSE [Pop(S) EXCEPT !.thrown = f.t]
        ELSE RemoveReturn(Pop(S), f.kind, f.t, f.h)

\* Backend::Remove after it->second.callEndCallback(): an exception leaves Remove
\* before the erase (and calls std::terminate when it leaves a destructor);
\* otherwise erase(it).  When the callback has erased the entry itself, `it` is
\* an invalidated iterator and erase(it) is undefined: ub is what the build does.
RemoveAfterCallback(S, raised, ub) ==
    LET f == Top(S)
    IN  IF raised
        THEN IF f.kind = "dtor"
             THEN [Pop(S) EXCEPT !.halted = TRUE]
             ELSE [Pop(S) EXCEPT !.thrown = f.t]
        ELSE IF f.id \in DOMAIN S.m_awaiterEntries
        THEN RemoveReturn([Pop(S) EXCEPT !.m_awaiterEntries = EraseEntry(@, f.id)],
                          f.kind, f.t, f.h)
        ELSE IF ub = "crash"
        THEN [Pop(S) EXCEPT !.halted = TRUE]
        ELSE RemoveReturn(Pop(S), f.kind, f.t, f.h)

\* Backend::IsDone
IsDone(S, id) ==
    IF id \in DOMAIN S.m_awaiterEntries
    THEN Done(S.unit[S.m_awaiterEntries[id]])
    ELSE id < S.m_nextAwaiterID

\* Faulty variant: done() asks the registry about the id the handle was given,
\* whether it still holds it or not.
RunnerDone_AsksBackend(S, t, h) ==
    IsDone(S, S.awaiterID[t])

\* ScopedTaskRunner::done
RunnerDone(S, t, h) ==
    S.m_id[t][h] # "held" \/ IsDone(S, S.awaiterID[t])

\* ScopedTaskRunner::waitUntilDone: where a resume() of the task it returns
\* leaves that task, the loop testing done() before every co_await NextFrame().
waitUntilDone(S, t, h) ==
    IF ~RunnerDone(S, t, h) THEN "suspended" ELSE "final"


\* ------------------------------------------------------------------ the program
Init ==
    /\ m_nextAwaiterID = 1
    /\ m_currentAwaiterID = 0
    /\ m_currentAwaiterRemovalNeeded = FALSE
    /\ m_awaiterEntries = [k \in {} |-> 0]
    /\ unit = [t \in Tasks |-> "none"]
    /\ awaiterID = [t \in Tasks |-> 0]
    /\ m_id = [t \in Tasks |-> [h \in Handles |-> "none"]]
    /\ finishCalls = [t \in Tasks |-> 0]
    /\ cancelCalls = [t \in Tasks |-> 0]
    /\ stack = <<>>
    /\ sweep = <<>>
    /\ faults = {}
    /\ thrown = 0
    /\ halted = FALSE
    /\ CoInit
    /\ CmbInit
    /\ TfsInit
    /\ AuxInit

\* The frame that is executing, if any.
TopOp == IF stack = <<>> THEN "host" ELSE stack[Len(stack)].op

\* User code is executing, and no exception is in flight: the host loop (empty
\* stack), a unit's body or a callback.
InUserCode == ~halted /\ thrown = 0 /\ TopOp \in {"host", "body", "cb"}

\* User code may make a call: every call in progress holds two frames, its own
\* and that of the user code it runs.
CanCall == InUserCode /\ Len(stack) < 2 * MaxNesting

\* The state in which user code makes its next call: sweep and faults describe
\* an update() only while it runs and in the state in which it has come back.
Here == IF stack = <<>> THEN [State EXCEPT !.sweep = <<>>, !.faults = {}] ELSE State

\* A handle that holds an id.  Every operation on a handle without one returns
\* at its has_value() test and changes nothing, so only these are followed.
Held(t, h) == m_id[t][h] = "held"

\* The host loop's tick: BackendAddon::update / Backend::ManualUpdate.  It is
\* called from the host loop only, never from inside a resume or a callback.
Update ==
    /\ InUserCode
    /\ stack = <<>>
    /\ Becomes(BackendUpdate(Here))

\* User code spawns the next task: ScopedTaskRunner{ task, finish, cancel }.
Spawn(t, pre) ==
    /\ CanCall
    /\ unit[t] = "none"
    /\ \A u \in Tasks : u < t => unit[u] # "none"
    /\ Becomes(ResumeAwaiterOnceAndRegisterIfNotDone(Here, t, pre))

\* The executing step of a unit ends: at a suspend point, by returning, or with
\* an exception, which unhandled_exception stores.  An exception that arrived
\* in the body and was not caught ends the step in the last way.
BodyReturn(outcome) ==
    /\ ~halted
    /\ TopOp = "body"
    /\ thrown = 0 \/ outcome = "fault"
    /\ LET t == Top(State).t
           S == Pop([State EXCEPT !.unit[t] = outcome, !.thrown = 0])
       IN  Becomes(IF Top(S).op = "spawn" THEN SpawnAfterResume(S)
                   ELSE UpdateAfterResume(S))

\* The executing callback ends, normally or by throwing (its own exception, or
\* one that arrived in it and was not caught).
CallbackReturn(throws, ub) ==
    /\ ~halted
    /\ TopOp = "cb"
    /\ thrown = 0 \/ throws
    /\ LET raised == throws \/ Top(State).rethrow
           S == Pop([State EXCEPT !.thrown = 0])
       IN  Becomes(CASE Top(S).op = "spawn"  -> SpawnAfterCallback(S, raised)
                     [] Top(S).op = "update" -> UpdateAfterEndCallback(S, raised)
                     [] Top(S).op = "Remove" -> RemoveAfterCallback(S, raised, ub))

\* User code catches the exception that arrived in it.
Catch ==
    /\ ~halted
    /\ thrown # 0
    /\ Becomes([Here EXCEPT !.thrown = 0])

\* ScopedTaskRunner::requestCancel
RequestCancel(t, h) ==
    /\ CanCall
    /\ Held(t, h)
    /\ Becomes(BackendRemove(Here, awaiterID[t], "requestCancel", t, h))

\* ScopedTaskRunner::~ScopedTaskRunner, of a handle no member function of which
\* is executing.  The handle is gone from here on.
Destroy(t, h) ==
    /\ CanCall
    /\ Held(t, h)
    /\ \A i \in 1 .. Len(stack) :
          ~(stack[i].op = "Remove" /\ stack[i].kind = "requestCancel"
                /\ stack[i].t = t /\ stack[i].h = h)
    /\ Becomes(BackendRemove([Here EXCEPT !.m_id[t][h] = "none"],
                             awaiterID[t], "dtor", t, h))

\* Faulty variant: forget() gives the id up as requestCancel() does.
Forget_Cancels(t, h) ==
    /\ CanCall
    /\ Held(t, h)
    /\ Becomes(BackendRemove(Here, awaiterID[t], "requestCancel", t, h))

\* ScopedTaskRunner::forget
Forget(t, h) ==
    /\ InUserCode
    /\ Held(t, h)
    /\ Becomes([Here EXCEPT !.m_id[t][h] = "forgotten"])

\* Faulty variant: the move constructor leaves the id in the moved-from handle.
Move_KeepsSource(t) ==
    /\ InUserCode
    /\ Held(t, 1)
    /\ Becomes([Here EXCEPT !.m_id[t][2] = "held"])

\* ScopedTaskRunner(ScopedTaskRunner&&): handle 2 is move-constructed from handle 1.
Move(t) ==
    /\ InUserCode
    /\ Held(t, 1)
    /\ Becomes([Here EXCEPT !.m_id[t][2] = "held", !.m_id[t][1] = "none"])

Next ==
    \/ Update
    \/ \E t \in Tasks, pre \in {"suspended", "value", "fault"} : Spawn(t, pre)
    \/ \E outcome \in {"suspended", "value", "fault"} : BodyReturn(outcome)
    \/ \E throws \in BOOLEAN, ub \in {"none", "crash"} : CallbackReturn(throws, ub)
    \/ Catch
    \/ \E t \in Tasks, h \in Handles : RequestCancel(t, h)
    \/ \E t \in Tasks, h \in Handles : Destroy(t, h)
    \/ \E t \in Tasks, h \in Handles : Forget(t, h)
    \/ \E t \in Tasks : Move(t)

Spec == Init /\ [][Next]_vars

\* Backend::ManualUpdate called from the body of a unit: a second
\* update() begins while one is in its loop. It sweeps the map from begin(),
\* the entry whose resume is executing included: resuming a coroutine that is
\* not suspended is undefined, and ub is what the build does with it: the
\* body is entered again ("none"), or the program stops ("crash"). The
\* resumes recorded in sweep bound the updates begun inside one tick.
ManualUpdate(ub) ==
    \/ /\ ub = "none"
       /\ CanCall
       /\ TopOp = "body"
       /\ Len(sweep) <= MaxTasks
       /\ Becomes(BackendUpdate(Here))
    \/ /\ ub = "crash"
       /\ ~halted
       /\ TopOp = "body"
       /\ \E i \in 1 .. Len(stack) - 1 :
             stack[i].op = "body" /\ stack[i].t = stack[Len(stack)].t
       /\ Becomes([State EXCEPT !.halted = TRUE])

ReentrantNext ==
    \/ Next
    \/ \E ub \in {"none", "crash"} : ManualUpdate(ub)

SpecReentrant == Init /\ [][ReentrantNext]_vars

\* ------------------------------------------------------------------ sanity
TypeOK ==
    /\ m_nextAwaiterID \in 1 .. (MaxTasks + 1)
    /\ m_currentAwaiterID \in 0 .. MaxTasks
    /\ m_currentAwaiterRemovalNeeded \in BOOLEAN
    /\ DOMAIN m_awaiterEntries \subseteq 1 .. MaxTasks
    /\ \A t \in Tasks : unit[t] \in {"none", "running", "suspended", "value", "fault"}
    /\ thrown \in 0 .. MaxTasks
    /\ Len(stack) <= 2 * MaxNesting

\* The entry of a task, the frames of a kind.
Live(t)        == awaiterID[t] \in DOMAIN m_awaiterEntries
Current(t)     == awaiterID[t] # 0 /\ awaiterID[t] = m_currentAwaiterID
InFrame(op, t) == \E i \in 1 .. Len(stack) : stack[i].op = op /\ stack[i].t = t

\* Task::resume returns at once on a finished unit; update() never meets one,
\* because every registered unit other than the current one is suspended.
LiveEntriesSuspended ==
    \A id \in DOMAIN m_awaiterEntries :
        id # m_currentAwaiterID => unit[m_awaiterEntries[id]] = "suspended"

\* Outside update() there is no current entry and no pending removal.
IdleBackend ==
    ~InFrame("update", 0) => m_currentAwaiterID = 0 /\ ~m_currentAwaiterRemovalNeeded

\* The entries are the tasks that hold the ids.
EntriesMatch ==
    \A id \in DOMAIN m_awaiterEntries : awaiterID[m_awaiterEntries[id]] = id


\* ------------------------------------------------------------------ nested units
CoState ==
    [ coro |-> coro,
      m_pSubAwaiter |-> m_pSubAwaiter,
      m_isResultSet |-> m_isResultSet,
      m_resultConsumed |-> m_resultConsumed,
      m_value |-> m_value,
      received |-> received,
      coStack |-> coStack,
      inflight |-> inflight,
      ret |-> ret,
      valueCalls |-> valueCalls,
      pending |-> pending,
      ran |-> ran,
      frames |-> frames,
      resumesSince |-> resumesSince ]

CoBecomes(S) ==
    /\ coro' = S.coro
    /\ m_pSubAwaiter' = S.m_pSubAwaiter
    /\ m_isResultSet' = S.m_isResultSet
    /\ m_resultConsumed' = S.m_resultConsumed
    /\ m_value' = S.m_value
    /\ received' = S.received
    /\ coStack' = S.coStack
    /\ inflight' = S.inflight
    /\ ret' = S.ret
    /\ valueCalls' = S.valueCalls
    /\ pending' = S.pending
    /\ ran' = S.ran
    /\ frames' = S.frames
    /\ resumesSince' = S.resumesSince
    /\ UNCHANGED <<vars, cmbVars, tfsVars, auxVars>>

\* A call in progress: unit u is in resumeSubAwaiter ("sub") or in await_suspend
\* ("await"), having called resume() on unit c, or its body is executing ("body").
CoFrame(u, at, c) == [u |-> u, at |-> at, c |-> c]
CoTop(S)  == S.coStack[Len(S.coStack)]
CoPop(S)  == [S EXCEPT !.coStack = SubSeq(@, 1, Len(@) - 1)]
CoPush(S, f) == [S EXCEPT !.coStack = Append(@, f)]

\* CoroutineHandleWrapper::done
CoDone(S, u) == S.coro[u] = "final"

\* value() that hands out the result without marking it consumed.
PromiseValue_Rereadable(S, u) ==
    IF ~S.m_isResultSet[u]
    THEN [S |-> S, out |-> Outcome("not completed", 0)]
    ELSE [S |-> S, out |-> S.m_value[u]]

\* Promise::value on unit u: the state after the call and what the call did.
PromiseValue(S, u) ==
    IF ~S.m_isResultSet[u]
    THEN [S |-> S, out |-> Outcome("not completed", 0)]
    ELSE IF S.m_resultConsumed[u]
    THEN [S |-> S, out |-> Outcome("only once", 0)]
    ELSE [S |-> [S EXCEPT !.m_resultConsumed[u] = TRUE], out |-> S.m_value[u]]

\* await_resume that drops what the awaited unit threw.
await_resume_Swallows(S, p, c) ==
    LET r == PromiseValue(S, c)
    IN  CoPush([CoPop(r.S) EXCEPT !.coro[p] = "running", !.ran = @ \cup {p}],
               CoFrame(p, "body", 0))

\* TaskAwaiter::await_resume in the body of unit p, which awaited unit c: the
\* co_await evaluates to c's result, or what value() throws is thrown into the
\* body of p at the co_await.  The body of p is executing from here on.
await_resume(S, p, c) ==
    LET r  == PromiseValue(S, c)
        S1 == CoPush([CoPop(r.S) EXCEPT !.coro[p] = "running", !.ran = @ \cup {p}],
                     CoFrame(p, "body", 0))
    IN  IF r.out.kind = "value"
        THEN [S1 EXCEPT !.received[p] = r.out]
        ELSE [S1 EXCEPT !.inflight = r.out]

\* Faulty variant: a unit whose sub-awaiter finishes during a delegated
\* resume forgets it and returns; its body goes on at its next resume().
RECURSIVE ResumeReturns_NextTick(_)
ResumeReturns_NextTick(S) ==
    IF S.coStack = <<>>
    THEN S
    ELSE LET f == CoTop(S)
         IN  IF CoDone(S, f.c) /\ f.at = "await"
             THEN await_resume([S EXCEPT !.m_pSubAwaiter[f.u] = 0], f.u, f.c)
             ELSE IF CoDone(S, f.c)
             THEN ResumeReturns_NextTick(CoPop([S EXCEPT !.m_pSubAwaiter[f.u] = 0]))
             ELSE IF f.at = "await"
             THEN ResumeReturns_NextTick(CoPop([S EXCEPT !.m_pSubAwaiter[f.u] = f.c,
                                                         !.coro[f.u] = "suspended"]))
             ELSE ResumeReturns_NextTick(CoPop(S))

\* A call of resume() has returned to its caller.  In resumeSubAwaiter: a
\* finished sub-unit is forgotten and the unit's own handle resumed, which
\* continues its body at await_resume; an unfinished one makes the unit's
\* resume() return in turn.  In await_suspend: a finished unit makes the
\* co_await go on without suspending; an unfinished one is set as sub-awaiter
\* and the awaiting unit suspends, its resume() returning in turn.
RECURSIVE ResumeReturns(_)
ResumeReturns(S) ==
    IF S.coStack = <<>>
    THEN S
    ELSE LET f == CoTop(S)
         IN  IF CoDone(S, f.c)
             THEN await_resume([S EXCEPT !.m_pSubAwaiter[f.u] = 0], f.u, f.c)
             ELSE IF f.at = "await"
             THEN ResumeReturns(CoPop([S EXCEPT !.m_pSubAwaiter[f.u] = f.c,
                                                !.coro[f.u] = "suspended"]))
             ELSE ResumeReturns(CoPop(S))

\* resume() that continues the unit's own body without looking at the
\* sub-awaiter.
TaskResume_OwnBodyFirst(S, u) ==
    IF CoDone(S, u)
    THEN ResumeReturns(S)
    ELSE CoPush([S EXCEPT !.coro[u] = "running", !.ran = @ \cup {u}],
                CoFrame(u, "body", 0))

\* Task::resume / CoroutineHandleWrapper::resume on unit u.  A resume()
\* that finds a sub-awaiter is one more call since the unit's co_await began.
RECURSIVE TaskResume(_, _)
TaskResume(S, u) ==
    IF CoDone(S, u)
    THEN ResumeReturns(S)
    ELSE IF S.m_pSubAwaiter[u] # 0
    THEN TaskResume(CoPush([S EXCEPT !.resumesSince[u] = IF @ <= MaxDelay THEN @ + 1 ELSE @],
                           CoFrame(u, "sub", S.m_pSubAwaiter[u])),
                    S.m_pSubAwaiter[u])
    ELSE CoPush([S EXCEPT !.coro[u] = "running", !.ran = @ \cup {u}],
                CoFrame(u, "body", 0))

\* The body that is executing, 0 = none (the program is).
Executing == IF coStack = <<>> THEN 0 ELSE coStack[Len(coStack)].u

\* The program resumes unit 1, as a tick of the registry does.
HostResume ==
    /\ coStack = <<>>
    /\ ~CoDone(CoState, 1)
    /\ CoBecomes(TaskResume([CoState EXCEPT !.pending = m_pSubAwaiter, !.ran = {}], 1))

\* The program calls Task::value on unit 1.
HostValue ==
    /\ coStack = <<>>
    /\ LET r == PromiseValue(CoState, 1)
       IN  CoBecomes([r.S EXCEPT !.ret = r.out,
                                 !.valueCalls = IF ~CoDone(CoState, 1) THEN 0
                                                ELSE IF @ = 0 THEN 1 ELSE 2])

\* The executing body reaches co_await NextFrame() (suspend_always): one
\* more frame for every unit that awaits it, directly or through others.
CoNextFrame ==
    /\ Executing # 0 /\ inflight = NoOutcome
    /\ LET awaiting == {coStack[i].u : i \in 1 .. Len(coStack) - 1}
       IN  CoBecomes(ResumeReturns(CoPop([CoState EXCEPT
                        !.coro[Executing] = "suspended",
                        !.frames = [u \in Units |->
                                       IF u \in awaiting /\ @[u] <= MaxDelay
                                       THEN @[u] + 1 ELSE @[u]]])))

\* The executing body reaches co_return v: Promise::return_value, final_suspend.
return_value(v) ==
    /\ Executing # 0 /\ inflight = NoOutcome
    /\ CoBecomes(ResumeReturns(CoPop([CoState EXCEPT
                    !.m_value[Executing] = Outcome("value", v),
                    !.m_isResultSet[Executing] = TRUE,
                    !.coro[Executing] = "final"])))

\* An exception leaves the executing body, its own or the one thrown into it
\* at a co_await: Promise::unhandled_exception, final_suspend.
unhandled_exception ==
    /\ Executing # 0
    /\ CoBecomes(ResumeReturns(CoPop([CoState EXCEPT
                    !.m_value[Executing] = IF inflight = NoOutcome
                                            THEN Outcome("exception", Executing)
                                            ELSE inflight,
                    !.m_isResultSet[Executing] = TRUE,
                    !.coro[Executing] = "final",
                    !.inflight = NoOutcome])))

\* The executing body catches the exception thrown into it.
CoCatch ==
    /\ Executing # 0 /\ inflight # NoOutcome
    /\ CoBecomes([CoState EXCEPT !.inflight = NoOutcome])

\* The executing body reaches co_await of a new task, the next unit of the
\* chain: await_ready is false, and TaskAwaiter::await_suspend resumes it.
await_suspend ==
    /\ Executing # 0 /\ inflight = NoOutcome
    /\ Executing < MaxChain
    /\ coro[Executing + 1] = "none"
    /\ LET p == Executing
           S == CoPush(CoPop([CoState EXCEPT !.coro[p + 1] = "initial",
                                             !.frames[p] = 0,
                                             !.resumesSince[p] = 0]),
                       CoFrame(p, "await", p + 1))
       IN  CoBecomes(TaskResume(S, p + 1))

CoNext ==
    \/ HostResume
    \/ HostValue
    \/ CoNextFrame
    \/ \E v \in Results : return_value(v)
    \/ unhandled_exception
    \/ CoCatch
    \/ await_suspend

SpecUnits == Init /\ [][CoNext]_<<vars, coVars, cmbVars, tfsVars, auxVars>>

CoTypeOK ==
    /\ \A u \in Units : coro[u] \in {"none", "initial", "running", "suspended", "final"}
    /\ \A u \in Units : m_pSubAwaiter[u] \in {0} \cup Units
    /\ Len(coStack) <= MaxChain

\* done() is true of a unit exactly when its result or exception has been set.
DoneIffResultSet ==
    \A u \in Units : coro[u] = "final" <=> m_isResultSet[u]

\* ------------------------------------------------------------------ All and Any
CmbState ==
    [ combinator |-> combinator,
      args |-> args,
      task |-> task,
      tick |-> tick,
      resumed |-> resumed,
      finishedAt |-> finishedAt,
      completedAt |-> completedAt ]

CmbBecomes(S) ==
    /\ combinator' = S.combinator
    /\ args' = S.args
    /\ task' = S.task
    /\ tick' = S.tick
    /\ resumed' = S.resumed
    /\ finishedAt' = S.finishedAt
    /\ completedAt' = S.completedAt
    /\ UNCHANGED <<vars, coVars, tfsVars, auxVars>>

\* What one resume of the body of argument i can do: suspend until the next
\* frame, return a value, or let an exception out.
BodyOutcomes(i) ==
    {NoOutcome} \cup {Outcome("value", v) : v \in Results} \cup {Outcome("exception", i)}

\* The body of the task a runs until it suspends or ends: o is what it does.
ArgStep(a, o) ==
    IF o = NoOutcome
    THEN [a EXCEPT !.coro = "suspended"]
    ELSE [a EXCEPT !.coro = "final", !.m_value = o]

\* Task::value on the task a (its promise has a result exactly when it is done).
TaskValue(a) ==
    IF a.coro # "final"
    THEN [a |-> a, out |-> Outcome("not completed", 0)]
    ELSE IF a.m_resultConsumed
    THEN [a |-> a, out |-> Outcome("only once", 0)]
    ELSE [a |-> [a EXCEPT !.m_resultConsumed = TRUE], out |-> a.m_value]

ConvertVoidResult(a) == TaskValue(a)

\* A conversion that leaves every slot absent.
ConvertOptionalVoidResult_Absent(a) == [a |-> a, out |-> NoOutcome]

ConvertOptionalVoidResult(a) ==
    IF a.coro # "final"
    THEN [a |-> a, out |-> NoOutcome]
    ELSE TaskValue(a)

\* A tick that resumes only the first argument that is not done.
ResumeArgs_FirstOnly(S, i, o) ==
    IF \A j \in i .. MaxArgs : S.args[j].coro = "final"
    THEN S
    ELSE LET j == CHOOSE j \in i .. MaxArgs :
                    /\ S.args[j].coro # "final"
                    /\ \A h \in i .. j - 1 : S.args[h].coro = "final"
         IN  [S EXCEPT !.args[j] = ArgStep(@, o[j]),
                       !.resumed = Append(@, j),
                       !.finishedAt[j] = IF o[j] = NoOutcome THEN -1 ELSE S.tick]

\* (args.resume(), ...): Task::resume on each argument from the i-th on, in
\* argument order; it returns at once on one that is done.
RECURSIVE ResumeArgs(_, _, _)
ResumeArgs(S, i, o) ==
    IF i > MaxArgs
    THEN S
    ELSE IF S.args[i].coro = "final"
    THEN ResumeArgs(S, i + 1, o)
    ELSE ResumeArgs([S EXCEPT !.args[i] = ArgStep(@, o[i]),
                              !.resumed = Append(@, i),
                              !.finishedAt[i] = IF o[i] = NoOutcome THEN -1 ELSE S.tick],
                    i + 1, o)

\* A co_return that never looks at the arguments' results.
MakeTuple_SkipsFaults(S, order, k) ==
    [S EXCEPT !.task.coro = "final",
              !.task.m_value = Outcome("tuple", 0),
              !.completedAt = S.tick]

\* co_return std::make_tuple(Convert(args)...): the arguments of make_tuple are
\* evaluated in an order the language leaves open, here order[1], order[2], ...;
\* the first exception ends the evaluation and the task (unhandled_exception).
RECURSIVE MakeTuple(_, _, _)
MakeTuple(S, order, k) ==
    IF k > MaxArgs
    THEN [S EXCEPT !.task.coro = "final",
                   !.task.m_value = Outcome("tuple", 0),
                   !.completedAt = S.tick]
    ELSE LET i == order[k]
             r == IF S.combinator = "All"
                  THEN ConvertVoidResult(S.args[i])
                  ELSE ConvertOptionalVoidResult(S.args[i])
         IN  IF r.out.kind \in {"none", "value"}
             THEN MakeTuple([S EXCEPT !.args[i] = r.a, !.task.tuple[i] = r.out],
                            order, k + 1)
             ELSE [S EXCEPT !.args[i] = r.a,
                            !.task.coro = "final",
                            !.task.m_value = r.out,
                            !.task.tuple = NoTuple,
                            !.completedAt = S.tick]

AllArgsDone(S) == \A i \in Args : S.args[i].coro = "final"
AnyArgDone(S)  == \E i \in Args : S.args[i].coro = "final"

\* One resume of the body of All: from the start, or from co_await NextFrame().
All(S, o, order) ==
    IF S.task.coro = "initial" /\ AllArgsDone(S)
    THEN MakeTuple(S, order, 1)
    ELSE LET S1 == ResumeArgs(S, 1, o)
         IN  IF AllArgsDone(S1)
             THEN MakeTuple(S1, order, 1)
             ELSE [S1 EXCEPT !.task.coro = "suspended"]

\* One resume of the body of Any.
AnyTask(S, o, order) ==
    IF S.task.coro = "initial" /\ AnyArgDone(S)
    THEN MakeTuple(S, order, 1)
    ELSE LET S1 == ResumeArgs(S, 1, o)
         IN  IF AnyArgDone(S1)
             THEN MakeTuple(S1, order, 1)
             ELSE [S1 EXCEPT !.task.coro = "suspended"]

\* Before the call the program resumes one of the tasks itself.
ArgResume(i, o) ==
    /\ combinator = "none"
    /\ args[i].coro # "final"
    /\ CmbBecomes([CmbState EXCEPT !.args[i] = ArgStep(@, o),
                                   !.finishedAt[i] = IF o = NoOutcome THEN -1 ELSE 0])

\* The program calls All(...) or Any(...), moving the tasks into the call: the
\* coroutine is created suspended, the tasks live in its frame.
Call(k) ==
    /\ combinator = "none"
    /\ CmbBecomes([CmbState EXCEPT !.combinator = k, !.task.coro = "initial"])

\* A tick that goes on resuming the arguments of a task that is done.
TaskTick_KeepsResuming(o, order) ==
    /\ task.coro \in {"initial", "suspended", "final"}
    /\ tick < MaxTicks
    /\ \A i \in Args : args[i].coro = "final" => o[i] = NoOutcome
    /\ LET S == [CmbState EXCEPT !.tick = @ + 1, !.resumed = <<>>]
       IN  CmbBecomes(IF task.coro = "final" THEN ResumeArgs(S, 1, o)
                      ELSE IF combinator = "All" THEN All(S, o, order)
                      ELSE AnyTask(S, o, order))

\* A tick: Task::resume on the task of All / Any.  The body of an argument
\* that is done does not run, so nothing is chosen for it.
TaskTick(o, order) ==
    /\ task.coro \in {"initial", "suspended", "final"}
    /\ tick < MaxTicks
    /\ \A i \in Args : args[i].coro = "final" => o[i] = NoOutcome
    /\ LET S == [CmbState EXCEPT !.tick = @ + 1, !.resumed = <<>>]
       IN  CmbBecomes(IF task.coro = "final" THEN S
                      ELSE IF combinator = "All" THEN All(S, o, order)
                      ELSE AnyTask(S, o, order))

\* The task of All / Any is destroyed, and with its frame the tasks in it.
TaskDestroy ==
    /\ task.coro \in {"initial", "suspended", "final"}
    /\ CmbBecomes([CmbState EXCEPT
            !.task.coro = "destroyed",
            !.args = [i \in Args |-> [@[i] EXCEPT !.coro = "destroyed"]]])

\* What the bodies of the arguments do when resumed in a tick.
TickOutcomes ==
    {o \in [Args -> UNION {BodyOutcomes(i) : i \in Args}] :
        \A i \in Args : o[i] \in BodyOutcomes(i)}

CmbNext ==
    \/ \E i \in Args : \E o \in BodyOutcomes(i) : ArgResume(i, o)
    \/ \E k \in {"All", "Any"} : Call(k)
    \/ \E o \in TickOutcomes : \E order \in Permutations(Args) : TaskTick(o, order)
    \/ TaskDestroy

SpecCombine == Init /\ [][CmbNext]_<<vars, coVars, cmbVars, tfsVars, auxVars>>

CmbTypeOK ==
    /\ combinator \in {"none", "All", "Any"}
    /\ task.coro \in {"none", "initial", "suspended", "final", "destroyed"}
    /\ tick \in 0 .. MaxTicks
    /\ \A i \in Args : finishedAt[i] \in -1 .. MaxTicks
    /\ completedAt \in -1 .. MaxTicks

\* ------------------------------------------------------------------ TaskFinishSource
\* TaskFinishSource::hasResult
hasResult(src) == src.m_result # 0

\* requestFinish that looks only at whether a result is stored.
requestFinish_IgnoresConsumed(src, v) ==
    IF hasResult(src)
    THEN [src |-> src, out |-> Outcome("false", 0)]
    ELSE [src |-> [src EXCEPT !.m_result = v], out |-> Outcome("true", 0)]

\* TaskFinishSource::requestFinish(v): the source after the call, and what the
\* call returned.
requestFinish(src, v) ==
    IF src.m_resultConsumed \/ hasResult(src)
    THEN [src |-> src, out |-> Outcome("false", 0)]
    ELSE [src |-> [src EXCEPT !.m_result = v], out |-> Outcome("true", 0)]

\* result() that leaves the value in the source.
result_KeepsValue(src) ==
    IF src.m_resultConsumed
    THEN [src |-> src, out |-> Outcome("only once", 0)]
    ELSE IF src.m_result = 0
    THEN [src |-> src, out |-> Outcome("no result", 0)]
    ELSE [src |-> [src EXCEPT !.m_resultConsumed = TRUE],
          out |-> Outcome("value", src.m_result)]

\* TaskFinishSource::result(): it returns the value, or throws one of two Errors.
result(src) ==
    IF src.m_resultConsumed
    THEN [src |-> src, out |-> Outcome("only once", 0)]
    ELSE IF src.m_result = 0
    THEN [src |-> src, out |-> Outcome("no result", 0)]
    ELSE [src |-> [src EXCEPT !.m_resultConsumed = TRUE, !.m_result = 0],
          out |-> Outcome("value", src.m_result)]

\* TaskFinishSource<void>::requestFinish
requestFinishVoid(src) ==
    IF src.m_finishRequested
    THEN [src |-> src, out |-> FALSE]
    ELSE [src |-> [src EXCEPT !.m_finishRequested = TRUE], out |-> TRUE]

Called(op, arg, out) == [op |-> op, arg |-> arg, out |-> out]

\* The program calls requestFinish(v).
RequestFinish(v) ==
    /\ Len(calls) < MaxCalls
    /\ LET r == requestFinish(source, v)
       IN  /\ source' = r.src
           /\ calls' = Append(calls, Called("requestFinish", v, r.out))
    /\ UNCHANGED <<voidSource, waiters, voidCalls, vars, coVars, cmbVars, auxVars>>

\* The program calls result().
Result ==
    /\ Len(calls) < MaxCalls
    /\ LET r == result(source)
       IN  /\ source' = r.src
           /\ calls' = Append(calls, Called("result", 0, r.out))
    /\ UNCHANGED <<voidSource, waiters, voidCalls, vars, coVars, cmbVars, auxVars>>

\* The program calls waitForResult(): the coroutine is created suspended.
WaitForResult(w) ==
    /\ waiters[w].coro = "none"
    /\ \A x \in Waiters : x < w => waiters[x].coro # "none"
    /\ waiters' = [waiters EXCEPT ![w].coro = "initial"]
    /\ UNCHANGED <<source, voidSource, calls, voidCalls, vars, coVars, cmbVars, auxVars>>

\* The task of waitForResult() is resumed: it suspends until the next frame
\* while there is no result, and otherwise marks the result consumed and
\* returns a copy of it.
WaiterResume(w) ==
    /\ waiters[w].coro \in {"initial", "suspended"}
    /\ IF hasResult(source)
       THEN /\ Len(calls) < MaxCalls
            /\ source' = [source EXCEPT !.m_resultConsumed = TRUE]
            /\ waiters' = [waiters EXCEPT ![w] = [coro |-> "final",
                                                 m_value |-> Outcome("value", source.m_result)]]
            /\ calls' = Append(calls, Called("waitForResult", 0,
                                             Outcome("value", source.m_result)))
       ELSE /\ waiters' = [waiters EXCEPT ![w].coro = "suspended"]
            /\ UNCHANGED <<source, calls>>
    /\ UNCHANGED <<voidSource, voidCalls, vars, coVars, cmbVars, auxVars>>

\* The program calls requestFinish() on the TaskFinishSource<void>.
RequestFinishVoid ==
    /\ Len(voidCalls) < MaxCalls
    /\ LET r == requestFinishVoid(voidSource)
       IN  /\ voidSource' = r.src
           /\ voidCalls' = Append(voidCalls, r.out)
    /\ UNCHANGED <<source, waiters, calls, vars, coVars, cmbVars, auxVars>>

TfsNext ==
    \/ \E v \in Results : RequestFinish(v)
    \/ Result
    \/ \E w \in Waiters : WaitForResult(w)
    \/ \E w \in Waiters : WaiterResume(w)
    \/ RequestFinishVoid

SpecFinish == Init /\ [][TfsNext]_<<vars, coVars, cmbVars, tfsVars, auxVars>>

TfsTypeOK ==
    /\ source.m_result \in {0} \cup Results
    /\ source.m_resultConsumed \in BOOLEAN
    /\ Len(calls) <= MaxCalls /\ Len(voidCalls) <= MaxCalls

\* ---------------------------------------------------------------- UpdaterTask
\* One invocation of updateFunc(taskFinishSource): the calls of the script are
\* made in order on the source; a result() that throws ends the invocation.
\* first is the value given to the first requestFinish call of the invocation,
\* took tells that a result() returned the value.
RECURSIVE updateFunc(_, _)
updateFunc(r, script) ==
    IF script = <<>> \/ r.threw
    THEN r
    ELSE IF Head(script) = 0
    THEN LET x == result(r.src)
         IN  updateFunc([src |-> x.src, first |-> r.first,
                         took |-> r.took \/ x.out.kind = "value",
                         threw |-> x.out.kind # "value"], Tail(script))
    ELSE LET x == requestFinish(r.src, Head(script))
         IN  updateFunc([src |-> x.src,
                         first |-> IF r.first = 0 THEN Head(script) ELSE r.first,
                         took |-> r.took, threw |-> FALSE], Tail(script))

\* An UpdaterTask that looks at the source before it invokes updateFunc.
UpdaterTask_ChecksBeforeCallback(script) ==
    /\ Len(resumes) < MaxResumes
    /\ IF updater.coro = "final"
       THEN /\ script = <<>>
            /\ resumes' = Append(resumes, [invoked |-> 0, first |-> 0, took |-> FALSE,
                                           done |-> TRUE, ret |-> updater.m_value])
            /\ UNCHANGED <<taskFinishSource, updater>>
       ELSE LET r == updateFunc([src |-> taskFinishSource, first |-> 0,
                                 took |-> FALSE, threw |-> FALSE], script)
                x == result(r.src)
                after == IF r.threw
                         THEN [src |-> r.src,
                               task |-> [coro |-> "final", m_value |-> Outcome("fault", 0)]]
                         ELSE IF hasResult(taskFinishSource)
                         THEN [src |-> x.src,
                               task |-> [coro |-> "final", m_value |-> x.out]]
                         ELSE [src |-> r.src,
                               task |-> [coro |-> "suspended", m_value |-> NoOutcome]]
            IN  /\ taskFinishSource' = after.src
                /\ updater' = after.task
                /\ resumes' = Append(resumes, [invoked |-> 1, first |-> r.first,
                                               took |-> r.took,
                                               done |-> after.task.coro = "final",
                                               ret |-> after.task.m_value])
    /\ UNCHANGED <<s_pInstance, lastOp, worker, asyncTask>>
    /\ UNCHANGED <<vars, coVars, cmbVars, tfsVars>>
    /\ UNCHANGED <<m_nextID, m_callers, sortingOrderFunc, cursor, crashed, invoked, snapshot, removed,
                   m_callerKeyByID, executorError, rebucketed>>
    /\ UNCHANGED <<m_runners, waitTask, m_handle, m_concurrentTasksBefore,
                   m_concurrentTasksAfter, resumeLog, ownSteps, ownFault, valueRet>>

\* resume() of the task of UpdaterTask<TResult>(updateFunc): nothing when the
\* task is done; otherwise one turn of the loop: updateFunc is invoked, and the
\* task returns result() if the source has a result and suspends until the next
\* frame if not. An exception of updateFunc ends the task.
UpdaterTask(script) ==
    /\ Len(resumes) < MaxResumes
    /\ IF updater.coro = "final"
       THEN /\ script = <<>>
            /\ resumes' = Append(resumes, [invoked |-> 0, first |-> 0, took |-> FALSE,
                                           done |-> TRUE, ret |-> updater.m_value])
            /\ UNCHANGED <<taskFinishSource, updater>>
       ELSE LET r == updateFunc([src |-> taskFinishSource, first |-> 0,
                                 took |-> FALSE, threw |-> FALSE], script)
                x == result(r.src)
                after == IF r.threw
                         THEN [src |-> r.src,
                               task |-> [coro |-> "final", m_value |-> Outcome("fault", 0)]]
                         ELSE IF hasResult(r.src)
                         THEN [src |-> x.src,
                               task |-> [coro |-> "final", m_value |-> x.out]]
                         ELSE [src |-> r.src,
                               task |-> [coro |-> "suspended", m_value |-> NoOutcome]]
            IN  /\ taskFinishSource' = after.src
                /\ updater' = after.task
                /\ resumes' = Append(resumes, [invoked |-> 1, first |-> r.first,
                                               took |-> r.took,
                                               done |-> after.task.coro = "final",
                                               ret |-> after.task.m_value])
    /\ UNCHANGED <<s_pInstance, lastOp, worker, asyncTask>>
    /\ UNCHANGED <<vars, coVars, cmbVars, tfsVars>>
    /\ UNCHANGED <<m_nextID, m_callers, sortingOrderFunc, cursor, crashed, invoked, snapshot, removed,
                   m_callerKeyByID, executorError, rebucketed>>
    /\ UNCHANGED <<m_runners, waitTask, m_handle, m_concurrentTasksBefore,
                   m_concurrentTasksAfter, resumeLog, ownSteps, ownFault, valueRet>>

UpdNext ==
    \E script \in UNION {[1 .. n -> 0 .. MaxResult] : n \in 0 .. MaxOps} : UpdaterTask(script)

SpecUpdater == Init /\ [][UpdNext]_<<vars, coVars, cmbVars, tfsVars, auxVars>>

\* ------------------------------------------------------------ OrderedExecutor
\* CallerKey::operator<
KeyLess_IdFirst(a, b) ==
    IF a.id # b.id THEN a.id < b.id ELSE a.sortingOrder < b.sortingOrder

KeyLess(a, b) ==
    IF a.sortingOrder # b.sortingOrder
    THEN a.sortingOrder < b.sortingOrder
    ELSE a.id < b.id

\* The key that follows cur in the map, and the key of id 0 at the end: ++it,
\* and begin() for the key of id 0, which is less than every key of the map.
Following(callers, cur) ==
    LET later == {k \in callers : KeyLess(cur, k)}
    IN  IF later = {}
        THEN [id |-> 0, sortingOrder |-> 0]
        ELSE CHOOSE k \in later : \A x \in later : x = k \/ KeyLess(k, x)

\* The executor as one value.
Executor ==
    [m_nextID |-> m_nextID, m_callers |-> m_callers, sortingOrderFunc |-> sortingOrderFunc,
     removed |-> removed, cursor |-> cursor,
     m_callerKeyByID |-> m_callerKeyByID, executorError |-> executorError]

\* m_callerKeyByID.insert_or_assign(id, key)
InsertOrAssign(index, id, key) ==
    [i \in DOMAIN index \cup {id} |-> IF i = id THEN key ELSE index[i]]

\* refreshSortingOrder that leaves every key as it is.
refreshSortingOrder_Keeps(S) == S

\* refreshSortingOrder that puts the entries under their new keys and leaves
\* the index as it is.
refreshSortingOrder_StaleIndex(S) ==
    [S EXCEPT !.m_callers = {[id |-> k.id, sortingOrder |-> S.sortingOrderFunc[k.id]] : k \in @}]

\* refreshSortingOrder: the keys whose sortingOrderFunc returns another value
\* than the key holds are listed, and the entry of each listed key, in the
\* order of the list, is erased and inserted under a key with the same id and
\* the new value, the index being given the new key. An Error ends it.
refreshSortingOrder(S) ==
    LET m_tempNewSortingOrders ==
            {k \in S.m_callers : S.sortingOrderFunc[k.id] # k.sortingOrder}
        RECURSIVE Reinsert(_, _)
        Reinsert(T, rest) ==
            IF rest = {} \/ T.executorError # "none"
            THEN T
            ELSE LET oldKey == CHOOSE k \in rest : \A x \in rest : x = k \/ KeyLess(k, x)
                     newKey == [id |-> oldKey.id,
                                sortingOrder |-> S.sortingOrderFunc[oldKey.id]]
                 IN  IF oldKey \notin T.m_callers
                     THEN [T EXCEPT !.executorError = "not found"]
                     ELSE IF \E k \in T.m_callers \ {oldKey} :
                                 ~KeyLess(k, newKey) /\ ~KeyLess(newKey, k)
                     THEN [T EXCEPT !.m_callers = @ \ {oldKey},
                                    !.executorError = "cannot be inserted"]
                     ELSE Reinsert([T EXCEPT !.m_callers = (@ \ {oldKey}) \cup {newKey},
                                             !.m_callerKeyByID =
                                                 InsertOrAssign(@, oldKey.id, newKey)],
                                   rest \ {oldKey})
    IN  Reinsert(S, m_tempNewSortingOrders)

\* findByID: the key of the entry the index leads to, the key of id 0 for
\* m_callers.end().
findByID(S, id) ==
    IF id \notin DOMAIN S.m_callerKeyByID
    THEN [id |-> 0, sortingOrder |-> 0]
    ELSE IF S.m_callerKeyByID[id] \in S.m_callers
    THEN S.m_callerKeyByID[id]
    ELSE [id |-> 0, sortingOrder |-> 0]

\* remove(id) that erases nothing while call() is running.
Perform_RemoveDefers(S, e) ==
    IF e.op = "add"
    THEN [S EXCEPT !.m_callers = @ \cup {[id |-> S.m_nextID, sortingOrder |-> e.p]},
                   !.m_callerKeyByID =
                       InsertOrAssign(@, S.m_nextID, [id |-> S.m_nextID, sortingOrder |-> e.p]),
                   !.sortingOrderFunc[S.m_nextID] = e.p,
                   !.m_nextID = @ + 1]
    ELSE IF e.op = "remove"
    THEN [S EXCEPT !.m_callers = IF S.cursor.id # 0 THEN @ ELSE {k \in @ : k.id # e.id},
                   !.m_callerKeyByID =
                       IF S.cursor.id # 0 THEN @ ELSE [i \in DOMAIN @ \ {e.id} |-> @[i]],
                   !.removed = IF e.id < S.m_nextID THEN @ \cup {e.id} ELSE @]
    ELSE IF e.op = "set"
    THEN [S EXCEPT !.sortingOrderFunc[e.id] = e.p]
    ELSE S

\* What one statement of user code does to the executor. add(func, p) with a
\* sortingOrderFunc that returns p; remove(id), with which the sortingOrderFunc
\* of the entry is destroyed (its value goes back to the initial one); "set":
\* the sortingOrderFunc of entry id returns p from now on; "none".
Perform(S, e) ==
    IF e.op = "add"
    THEN LET key == [id |-> S.m_nextID, sortingOrder |-> e.p]
         IN  IF \E k \in S.m_callers : ~KeyLess(k, key) /\ ~KeyLess(key, k)
             THEN [S EXCEPT !.executorError = "cannot be inserted"]
             ELSE IF S.m_nextID \in DOMAIN S.m_callerKeyByID
             THEN [S EXCEPT !.m_callers = @ \cup {key},
                            !.sortingOrderFunc[S.m_nextID] = e.p,
                            !.executorError = "inconsistency detected"]
             ELSE [S EXCEPT !.m_callers = @ \cup {key},
                            !.m_callerKeyByID = InsertOrAssign(@, S.m_nextID, key),
                            !.sortingOrderFunc[S.m_nextID] = e.p,
                            !.m_nextID = @ + 1]
    ELSE IF e.op = "remove"
    THEN LET it == findByID(S, e.id)
         IN  IF it.id = 0
             THEN IF e.id \in DOMAIN S.m_callerKeyByID
                  THEN [S EXCEPT !.executorError = "inconsistency detected"]
                  ELSE [S EXCEPT !.removed = IF e.id < S.m_nextID THEN @ \cup {e.id} ELSE @]
             ELSE [S EXCEPT !.m_callers = @ \ {it},
                            !.m_callerKeyByID = [i \in DOMAIN @ \ {e.id} |-> @[i]],
                            !.sortingOrderFunc[it.id] = 1,
                            !.removed = @ \cup {e.id}]
    ELSE IF e.op = "set"
    THEN [S EXCEPT !.sortingOrderFunc[e.id] = e.p]
    ELSE S

\* The statements user code may execute now: add while ids are left in the
\* model, remove of any id, registered or not, a change of the value the
\* sortingOrderFunc of a registered entry returns.
Statements ==
    {[op |-> "none", id |-> 0, p |-> 0]}
    \cup {[op |-> "add", id |-> 0, p |-> p] : p \in {q \in 1 .. MaxOrder : m_nextID <= MaxCallers}}
    \cup {[op |-> "remove", id |-> id, p |-> 0] : id \in 1 .. MaxCallers}
    \cup {[op |-> "set", id |-> k.id, p |-> p] : k \in m_callers, p \in 1 .. MaxOrder}

\* The executor becomes S.
ExecutorBecomes(S) ==
    /\ m_nextID' = S.m_nextID
    /\ m_callers' = S.m_callers
    /\ sortingOrderFunc' = S.sortingOrderFunc
    /\ removed' = S.removed
    /\ m_callerKeyByID' = S.m_callerKeyByID
    /\ executorError' = S.executorError

\* User code outside call() executes a statement.
Statement(e) ==
    /\ ~crashed
    /\ cursor.id = 0
    /\ e.op # "none"
    /\ ExecutorBecomes(Perform(Executor, e))
    /\ UNCHANGED <<cursor, crashed, invoked, snapshot, rebucketed>>
    /\ UNCHANGED <<s_pInstance, lastOp, worker, asyncTask>>
    /\ UNCHANGED <<vars, coVars, cmbVars, tfsVars, taskFinishSource, updater, resumes>>
    /\ UNCHANGED <<m_runners, waitTask, m_handle, m_concurrentTasksBefore,
                   m_concurrentTasksAfter, resumeLog, ownSteps, ownFault, valueRet>>

\* call() begins: refreshSortingOrder(), and the loop stands on the first
\* entry; an Error of refreshSortingOrder() ends the call.
ExecutorCall ==
    /\ ~crashed
    /\ cursor.id = 0
    /\ LET S == refreshSortingOrder(Executor)
       IN  /\ ExecutorBecomes(S)
           /\ snapshot' = S.m_callers
           /\ rebucketed' = {k.id : k \in m_callers \ S.m_callers}
           /\ cursor' = IF S.executorError # executorError
                        THEN cursor
                        ELSE Following(S.m_callers, [id |-> 0, sortingOrder |-> 0])
    /\ invoked' = <<>>
    /\ UNCHANGED crashed
    /\ UNCHANGED <<s_pInstance, lastOp, worker, asyncTask>>
    /\ UNCHANGED <<vars, coVars, cmbVars, tfsVars, taskFinishSource, updater, resumes>>
    /\ UNCHANGED <<m_runners, waitTask, m_handle, m_concurrentTasksBefore,
                   m_concurrentTasksAfter, resumeLog, ownSteps, ownFault, valueRet>>

\* One turn of the loop of call(): caller.func() of the entry the loop stands
\* on, which executes a statement, and the step to the next entry. When the
\* callback has removed its own entry the step is made from an erased element:
\* the program goes on with the entry that follows, or it stops. An Error
\* thrown to the callback leaves call().
Callback(e, stops) ==
    /\ ~crashed
    /\ cursor.id # 0
    /\ LET S == Perform(Executor, e)
       IN  /\ ExecutorBecomes(S)
           /\ invoked' = Append(invoked, cursor)
           /\ stops => cursor \notin S.m_callers
           /\ crashed' = stops
           /\ cursor' = IF stops THEN cursor
                        ELSE IF S.executorError # executorError
                        THEN [id |-> 0, sortingOrder |-> 0]
                        ELSE Following(S.m_callers, cursor)
    /\ UNCHANGED <<snapshot, rebucketed>>
    /\ UNCHANGED <<s_pInstance, lastOp, worker, asyncTask>>
    /\ UNCHANGED <<vars, coVars, cmbVars, tfsVars, taskFinishSource, updater, resumes>>
    /\ UNCHANGED <<m_runners, waitTask, m_handle, m_concurrentTasksBefore,
                   m_concurrentTasksAfter, resumeLog, ownSteps, ownFault, valueRet>>

ExeNext ==
    \/ \E e \in Statements : Statement(e)
    \/ ExecutorCall
    \/ \E e \in Statements : \E stops \in BOOLEAN : Callback(e, stops)

SpecExecutor == Init /\ [][ExeNext]_<<vars, coVars, cmbVars, tfsVars, auxVars>>

\* ---------------------------------------------------------------- MultiRunner
\* allDone() that wants at least one runner.
allDone_NonEmpty(rs) == rs # <<>> /\ \A i \in 1 .. Len(rs) : rs[i]

\* MultiRunner::allDone: std::ranges::all_of over m_runners of runner.done()
allDone(rs) == \A i \in 1 .. Len(rs) : rs[i]

\* MultiRunner::anyDone: std::ranges::any_of over m_runners of runner.done()
anyDone(rs) == \E i \in 1 .. Len(rs) : rs[i]

\* The program changes the runners to rs: add(runner) of a runner that is done
\* or not, the end of the task of a runner, requestCancelAll(), clear().
MultiRunnerOp(rs) ==
    /\ rs # m_runners
    /\ \/ \E d \in BOOLEAN : Len(m_runners) < MaxRunners /\ rs = Append(m_runners, d)
       \/ \E i \in 1 .. Len(m_runners) : rs = [m_runners EXCEPT ![i] = TRUE]
       \/ rs = [i \in 1 .. Len(m_runners) |-> TRUE]
       \/ rs = <<>>
    /\ m_runners' = rs
    /\ UNCHANGED <<waitTask, vars, coVars, cmbVars, tfsVars, taskFinishSource, updater, resumes>>
    /\ UNCHANGED <<m_nextID, m_callers, sortingOrderFunc, cursor, crashed, invoked, snapshot, removed,
                   m_callerKeyByID, executorError, rebucketed>>
    /\ UNCHANGED <<m_handle, m_concurrentTasksBefore, m_concurrentTasksAfter, resumeLog, ownSteps, ownFault, valueRet>>
    /\ UNCHANGED <<s_pInstance, lastOp, worker, asyncTask>>

\* The task of waitUntilAllDone() (which = "all") or of waitUntilAnyDone()
\* ("any") is resumed: it returns when allDone() / anyDone() is true and
\* suspends until the next frame when not.
WaitUntilDone(which) ==
    /\ waitTask[which] # "final"
    /\ waitTask' = [waitTask EXCEPT ![which] =
                        IF (which = "all" /\ allDone(m_runners))
                              \/ (which = "any" /\ anyDone(m_runners))
                        THEN "final" ELSE "suspended"]
    /\ UNCHANGED <<m_runners, vars, coVars, cmbVars, tfsVars, taskFinishSource, updater, resumes>>
    /\ UNCHANGED <<m_nextID, m_callers, sortingOrderFunc, cursor, crashed, invoked, snapshot, removed,
                   m_callerKeyByID, executorError, rebucketed>>
    /\ UNCHANGED <<m_handle, m_concurrentTasksBefore, m_concurrentTasksAfter, resumeLog, ownSteps, ownFault, valueRet>>
    /\ UNCHANGED <<s_pInstance, lastOp, worker, asyncTask>>

MrNext ==
    \/ \E rs \in UNION {[1 .. n -> BOOLEAN] : n \in 0 .. MaxRunners} : MultiRunnerOp(rs)
    \/ \E which \in {"all", "any"} : WaitUntilDone(which)

SpecMulti == Init /\ [][MrNext]_<<vars, coVars, cmbVars, tfsVars, auxVars>>

\* ------------------------------------------------------------------ Task::with
\* Task::with(task) and Task::with(task, timing): the task, not yet resumed or
\* already done, is appended to the vector of its timing.
With(timing, c) ==
    /\ Len(m_concurrentTasksBefore) + Len(m_concurrentTasksAfter) < MaxCompanions
    /\ IF timing = "Before"
       THEN /\ m_concurrentTasksBefore' = Append(m_concurrentTasksBefore, c)
            /\ UNCHANGED m_concurrentTasksAfter
       ELSE /\ m_concurrentTasksAfter' = Append(m_concurrentTasksAfter, c)
            /\ UNCHANGED m_concurrentTasksBefore
    /\ UNCHANGED <<m_handle, resumeLog, ownSteps, ownFault, valueRet>>
    /\ UNCHANGED <<s_pInstance, lastOp, worker, asyncTask>>
    /\ UNCHANGED <<vars, coVars, cmbVars, tfsVars, taskFinishSource, updater, resumes>>
    /\ UNCHANGED <<m_nextID, m_callers, sortingOrderFunc, cursor, crashed, invoked, snapshot, removed,
                   m_callerKeyByID, executorError, rebucketed>>
    /\ UNCHANGED <<m_runners, waitTask>>

\* A resume() without the test of m_handle.done().
ResumeWith_NoDoneTest(o) ==
    /\ ownSteps < MaxSteps
    /\ o.throws => o.own = "final"
    /\ \A i \in 1 .. MaxCompanions :
          /\ (i > Len(m_concurrentTasksBefore) \/ m_handle = "final")
                => o.before[i] = "suspended"
          /\ (i > Len(m_concurrentTasksAfter) \/ m_handle = "final")
                => o.after[i] = "suspended"
    /\ LET Resumed(who, cs) == [i \in 1 .. Len(cs) |-> [who |-> who, i |-> i]]
           Stepped(cs, os) == [i \in 1 .. Len(cs) |->
                                  IF cs[i] \in {"final", "fault"} THEN cs[i] ELSE os[i]]
       IN  /\ m_concurrentTasksBefore' = Stepped(m_concurrentTasksBefore, o.before)
           /\ m_handle' = o.own
           /\ ownFault' = o.throws
           /\ m_concurrentTasksAfter' = Stepped(m_concurrentTasksAfter, o.after)
           /\ resumeLog' = Resumed("before", m_concurrentTasksBefore)
                               \o <<[who |-> "own", i |-> 0]>>
                               \o Resumed("after", m_concurrentTasksAfter)
           /\ ownSteps' = ownSteps + 1
    /\ UNCHANGED valueRet
    /\ UNCHANGED <<s_pInstance, lastOp, worker, asyncTask>>
    /\ UNCHANGED <<vars, coVars, cmbVars, tfsVars, taskFinishSource, updater, resumes>>
    /\ UNCHANGED <<m_nextID, m_callers, sortingOrderFunc, cursor, crashed, invoked, snapshot, removed,
                   m_callerKeyByID, executorError, rebucketed>>
    /\ UNCHANGED <<m_runners, waitTask>>

\* A resume() that leaves the After tasks alone in the step that ends the body.
ResumeWith_NoAfterAtTheEnd(o) ==
    /\ ownSteps < MaxSteps
    /\ o.throws => o.own = "final"
    /\ \A i \in 1 .. MaxCompanions :
          /\ (i > Len(m_concurrentTasksBefore) \/ m_handle = "final")
                => o.before[i] = "suspended"
          /\ (i > Len(m_concurrentTasksAfter) \/ m_handle = "final")
                => o.after[i] = "suspended"
    /\ IF m_handle = "final"
       THEN /\ resumeLog' = <<>>
            /\ UNCHANGED <<m_handle, m_concurrentTasksBefore, m_concurrentTasksAfter,
                           ownSteps, ownFault>>
       ELSE LET Resumed(who, cs) == [i \in 1 .. Len(cs) |-> [who |-> who, i |-> i]]
                Stepped(cs, os) == [i \in 1 .. Len(cs) |->
                                       IF cs[i] \in {"final", "fault"} THEN cs[i] ELSE os[i]]
            IN  /\ m_concurrentTasksBefore' = Stepped(m_concurrentTasksBefore, o.before)
                /\ m_handle' = o.own
                /\ ownFault' = o.throws
                /\ m_concurrentTasksAfter' = (IF o.own = "final" THEN m_concurrentTasksAfter ELSE Stepped(m_concurrentTasksAfter, o.after))
                /\ resumeLog' = Resumed("before", m_concurrentTasksBefore)
                                    \o <<[who |-> "own", i |-> 0]>>
                                    \o (IF o.own = "final" THEN <<>> ELSE Resumed("after", m_concurrentTasksAfter))
                /\ ownSteps' = ownSteps + 1
    /\ UNCHANGED valueRet
    /\ UNCHANGED <<s_pInstance, lastOp, worker, asyncTask>>
    /\ UNCHANGED <<vars, coVars, cmbVars, tfsVars, taskFinishSource, updater, resumes>>
    /\ UNCHANGED <<m_nextID, m_callers, sortingOrderFunc, cursor, crashed, invoked, snapshot, removed,
                   m_callerKeyByID, executorError, rebucketed>>
    /\ UNCHANGED <<m_runners, waitTask>>

\* A resume() out of which the exception of an attached task's body is
\* thrown: the calls after the faulting one are not made.
ResumeWith_Propagates(o) ==
    /\ ownSteps < MaxSteps
    /\ o.throws => o.own = "final"
    /\ \A i \in 1 .. MaxCompanions :
          /\ (i > Len(m_concurrentTasksBefore) \/ m_handle = "final")
                => o.before[i] = "suspended"
          /\ (i > Len(m_concurrentTasksAfter) \/ m_handle = "final")
                => o.after[i] = "suspended"
    /\ IF m_handle = "final"
       THEN /\ resumeLog' = <<>>
            /\ UNCHANGED <<m_handle, m_concurrentTasksBefore, m_concurrentTasksAfter,
                           ownSteps, ownFault>>
       ELSE LET Resumed(who, cs) == [i \in 1 .. Len(cs) |-> [who |-> who, i |-> i]]
                Stepped(cs, os) == [i \in 1 .. Len(cs) |->
                                       IF cs[i] \in {"final", "fault"} THEN cs[i] ELSE os[i]]
                Faults(cs, os) == \E i \in 1 .. Len(cs) :
                                      cs[i] \notin {"final", "fault"} /\ os[i] = "fault"
            IN  IF Faults(m_concurrentTasksBefore, o.before)
                THEN /\ m_concurrentTasksBefore' = Stepped(m_concurrentTasksBefore, o.before)
                     /\ resumeLog' = Resumed("before", m_concurrentTasksBefore)
                     /\ UNCHANGED <<m_handle, m_concurrentTasksAfter, ownSteps, ownFault>>
                ELSE /\ m_concurrentTasksBefore' = Stepped(m_concurrentTasksBefore, o.before)
                     /\ m_handle' = o.own
                     /\ ownFault' = o.throws
                     /\ m_concurrentTasksAfter' = Stepped(m_concurrentTasksAfter, o.after)
                     /\ resumeLog' = Resumed("before", m_concurrentTasksBefore)
                                         \o <<[who |-> "own", i |-> 0]>>
                                         \o Resumed("after", m_concurrentTasksAfter)
                     /\ ownSteps' = ownSteps + 1
    /\ UNCHANGED valueRet
    /\ UNCHANGED <<s_pInstance, lastOp, worker, asyncTask>>
    /\ UNCHANGED <<vars, coVars, cmbVars, tfsVars, taskFinishSource, updater, resumes>>
    /\ UNCHANGED <<m_nextID, m_callers, sortingOrderFunc, cursor, crashed, invoked, snapshot, removed,
                   m_callerKeyByID, executorError, rebucketed>>
    /\ UNCHANGED <<m_runners, waitTask>>

\* Task::resume of the primary task: nothing when its coroutine is done;
\* otherwise resume() of every Before task in order, the primary's own step,
\* resume() of every After task in order. resume() of a task that is done does
\* nothing; o tells how the step of each body ends: at a suspend point, by
\* returning ("final"), or with an exception, which unhandled_exception
\* stores in the promise of that body's task ("fault" for an attached task,
\* throws for the primary): resume() returns normally in every case. For a
\* task that is not there o says "suspended".
ResumeWith(o) ==
    /\ ownSteps < MaxSteps
    /\ o.throws => o.own = "final"
    /\ \A i \in 1 .. MaxCompanions :
          /\ (i > Len(m_concurrentTasksBefore) \/ m_handle = "final")
                => o.before[i] = "suspended"
          /\ (i > Len(m_concurrentTasksAfter) \/ m_handle = "final")
                => o.after[i] = "suspended"
    /\ IF m_handle = "final"
       THEN /\ resumeLog' = <<>>
            /\ UNCHANGED <<m_handle, m_concurrentTasksBefore, m_concurrentTasksAfter,
                           ownSteps, ownFault>>
       ELSE LET Resumed(who, cs) == [i \in 1 .. Len(cs) |-> [who |-> who, i |-> i]]
                Stepped(cs, os) == [i \in 1 .. Len(cs) |->
                                       IF cs[i] \in {"final", "fault"} THEN cs[i] ELSE os[i]]
            IN  /\ m_concurrentTasksBefore' = Stepped(m_concurrentTasksBefore, o.before)
                /\ m_handle' = o.own
                /\ ownFault' = o.throws
                /\ m_concurrentTasksAfter' = Stepped(m_concurrentTasksAfter, o.after)
                /\ resumeLog' = Resumed("before", m_concurrentTasksBefore)
                                    \o <<[who |-> "own", i |-> 0]>>
                                    \o Resumed("after", m_concurrentTasksAfter)
                /\ ownSteps' = ownSteps + 1
    /\ UNCHANGED valueRet
    /\ UNCHANGED <<s_pInstance, lastOp, worker, asyncTask>>
    /\ UNCHANGED <<vars, coVars, cmbVars, tfsVars, taskFinishSource, updater, resumes>>
    /\ UNCHANGED <<m_nextID, m_callers, sortingOrderFunc, cursor, crashed, invoked, snapshot, removed,
                   m_callerKeyByID, executorError, rebucketed>>
    /\ UNCHANGED <<m_runners, waitTask>>

\* Task::value of the primary task, called once when it is done by whoever
\* awaits it (TaskAwaiter::await_resume, the finish wrapper of Backend::Add):
\* Promise::value returns the result or rethrows the exception stored in the
\* promise of the primary; the promises of the attached tasks are not read.
ValueWith ==
    /\ m_handle = "final"
    /\ valueRet = "unread"
    /\ valueRet' = IF ownFault THEN "exception" ELSE "value"
    /\ UNCHANGED <<m_handle, m_concurrentTasksBefore, m_concurrentTasksAfter, resumeLog,
                   ownSteps, ownFault>>
    /\ UNCHANGED <<s_pInstance, lastOp, worker, asyncTask>>
    /\ UNCHANGED <<vars, coVars, cmbVars, tfsVars, taskFinishSource, updater, resumes>>
    /\ UNCHANGED <<m_nextID, m_callers, sortingOrderFunc, cursor, crashed, invoked, snapshot, removed,
                   m_callerKeyByID, executorError, rebucketed>>
    /\ UNCHANGED <<m_runners, waitTask>>

WithNext ==
    \/ \E timing \in {"Before", "After"}, c \in {"initial", "final"} : With(timing, c)
    \/ \E o \in [own : {"suspended", "final"}, throws : BOOLEAN,
                  before : [1 .. MaxCompanions -> {"suspended", "final", "fault"}],
                  after : [1 .. MaxCompanions -> {"suspended", "final", "fault"}]] : ResumeWith(o)
    \/ ValueWith

SpecWith == Init /\ [][WithNext]_<<vars, coVars, cmbVars, tfsVars, auxVars>>

\* ------------------------------------------------- the instance of Backend
\* Operate with Remove and the removals of callers raising the Error of the
\* other operations when there is no instance.
Operate_RemoveThrows(op, first) ==
    LET Throwing == {"Add", "IsDone", "ManualUpdate", "AddUpdateInputCaller", "AddDrawer",
                     "HasActiveDrawer", "HasActiveDrawerInRange",
                     "Remove", "RemoveUpdateInputCaller", "RemoveDrawer"}
        stepped == IF op = "spawn" /\ first # "done" THEN 1 ELSE 0
        ends == op = "spawn" /\ first # "suspends"
    IN  /\ op \in Throwing \cup {"spawn", "Init", "release"}
        /\ op # "spawn" => first = "done"
        /\ s_pInstance' = CASE op = "Init" -> TRUE
                            [] op = "release" -> FALSE
                            [] OTHER -> s_pInstance
        /\ lastOp' = [op |-> op,
                      error |-> \/ op = "Init" /\ s_pInstance
                                \/ op \in Throwing /\ ~s_pInstance
                                \/ op = "spawn" /\ first = "suspends" /\ ~s_pInstance,
                      bodySteps |-> stepped,
                      finishCallback |-> ends]
        /\ UNCHANGED <<worker, asyncTask>>
        /\ UNCHANGED <<vars, coVars, cmbVars, tfsVars, taskFinishSource, updater, resumes>>
        /\ UNCHANGED <<m_nextID, m_callers, sortingOrderFunc, cursor, crashed, invoked, snapshot, removed,
                   m_callerKeyByID, executorError, rebucketed>>
        /\ UNCHANGED <<m_runners, waitTask, m_handle, m_concurrentTasksBefore,
                       m_concurrentTasksAfter, resumeLog, ownSteps, ownFault, valueRet>>

\* The static operations of Backend (Core.hpp 391-565) and the spawn
\* (ResumeAwaiterOnceAndRegisterIfNotDone, 588-651), by their test of
\* s_pInstance. first is what the task given to a spawn does: "done", it was
\* done before; "finishes", it finishes in its first resume; "suspends".
\* "Init" is Addon::Register with the constructor of BackendAddon (293-301),
\* "release" the destructor (303-309). With the instance present the
\* operations act on the registry and the executors, which the other
\* specifications model; here only their Error is kept.
Operate(op, first) ==
    LET Throwing == {"Add", "IsDone", "ManualUpdate", "AddUpdateInputCaller", "AddDrawer",
                     "HasActiveDrawer", "HasActiveDrawerInRange"}
        Silent == {"Remove", "RemoveUpdateInputCaller", "RemoveDrawer"}
        stepped == IF op = "spawn" /\ first # "done" THEN 1 ELSE 0
        \* ResumeAwaiterOnceAndRegisterIfNotDone: done() and resume() come
        \* before Backend::Add, the only place that tests s_pInstance
        ends == op = "spawn" /\ first # "suspends"
    IN  /\ op \in Throwing \cup Silent \cup {"spawn", "Init", "release"}
        /\ op # "spawn" => first = "done"
        /\ s_pInstance' = CASE op = "Init" -> TRUE
                            [] op = "release" -> FALSE
                            [] OTHER -> s_pInstance
        /\ lastOp' = [op |-> op,
                      error |-> \/ op = "Init" /\ s_pInstance
                                \/ op \in Throwing /\ ~s_pInstance
                                \/ op = "spawn" /\ first = "suspends" /\ ~s_pInstance,
                      bodySteps |-> stepped,
                      finishCallback |-> ends]
        /\ UNCHANGED <<worker, asyncTask>>
        /\ UNCHANGED <<vars, coVars, cmbVars, tfsVars, taskFinishSource, updater, resumes>>
        /\ UNCHANGED <<m_nextID, m_callers, sortingOrderFunc, cursor, crashed, invoked, snapshot, removed,
                   m_callerKeyByID, executorError, rebucketed>>
        /\ UNCHANGED <<m_runners, waitTask, m_handle, m_concurrentTasksBefore,
                       m_concurrentTasksAfter, resumeLog, ownSteps, ownFault, valueRet>>

\* The thread of std::async (Core.hpp 1931) returns from func: the future
\* becomes ready.
Worker ==
    /\ worker = "running"
    /\ worker' = "finished"
    /\ UNCHANGED <<s_pInstance, lastOp, asyncTask>>
    /\ UNCHANGED <<vars, coVars, cmbVars, tfsVars, taskFinishSource, updater, resumes>>
    /\ UNCHANGED <<m_nextID, m_callers, sortingOrderFunc, cursor, crashed, invoked, snapshot, removed,
                   m_callerKeyByID, executorError, rebucketed>>
    /\ UNCHANGED <<m_runners, waitTask, m_handle, m_concurrentTasksBefore,
                   m_concurrentTasksAfter, resumeLog, ownSteps, ownFault, valueRet>>

\* What the driving thread does with an AsyncThread task (Core.hpp
\* 1926-1934). "resume": the first resume starts the thread and suspends in
\* WaitUntil, whose predicate asks wait_for(0) and never waits; a later
\* resume finishes with future.get() when the future is ready. "destroy":
\* the coroutine frame is destroyed while suspended (the erase of
\* Backend::Remove, 474, or the destructor of the owner), which destroys the
\* local future: the destructor of a future of std::async(launch::async)
\* that has not been read returns only when the thread has finished.
\* "return": that destructor returns.
AsyncThread(op) ==
    /\ \/ /\ op = "resume"
          /\ asyncTask \in {"none", "waiting"}
          /\ IF asyncTask = "none"
                THEN worker' = "running" /\ asyncTask' = "waiting"
                ELSE /\ asyncTask' = IF worker = "finished" THEN "final" ELSE "waiting"
                     /\ UNCHANGED worker
       \/ /\ op = "destroy"
          /\ asyncTask = "waiting"
          /\ asyncTask' = IF worker = "finished" THEN "destroyed" ELSE "destroying"
          /\ UNCHANGED worker
       \/ /\ op = "return"
          /\ asyncTask = "destroying"
          /\ worker = "finished"
          /\ asyncTask' = "destroyed"
          /\ UNCHANGED worker
    /\ UNCHANGED <<s_pInstance, lastOp>>
    /\ UNCHANGED <<vars, coVars, cmbVars, tfsVars, taskFinishSource, updater, resumes>>
    /\ UNCHANGED <<m_nextID, m_callers, sortingOrderFunc, cursor, crashed, invoked, snapshot, removed,
                   m_callerKeyByID, executorError, rebucketed>>
    /\ UNCHANGED <<m_runners, waitTask, m_handle, m_concurrentTasksBefore,
                   m_concurrentTasksAfter, resumeLog, ownSteps, ownFault, valueRet>>

HostNext ==
    \/ \E op \in {"Add", "IsDone", "ManualUpdate", "AddUpdateInputCaller", "AddDrawer",
                  "HasActiveDrawer", "HasActiveDrawerInRange", "Remove",
                  "RemoveUpdateInputCaller", "RemoveDrawer", "spawn", "Init", "release"},
          first \in {"done", "finishes", "suspends"} : Operate(op, first)
    \/ Worker
    \/ \E op \in {"resume", "destroy", "return"} : AsyncThread(op)

SpecHost == Init /\ [][HostNext]_<<vars, coVars, cmbVars, tfsVars, auxVars>>

\* ------------------------------------------------------------------ the claims
\* The state after the step, and the frame executing in it.
After     == State'
TopFrame  == Top(State)
TopAfter  == Top(After)
TopOpAfter == TopOp'

\* The step ends the first resume of task t, made by the spawn, with a result
\* (or the spawn is handed a task that has its result already).
FirstResumeCompletes(t) ==
    /\ unit'[t] = "value"
    /\ \/ unit[t] = "none"
       \/ TopOp = "body" /\ TopFrame.t = t /\ TopFrame.kind = "spawn"

\* The step is the normal return of the spawn of task t.
SpawnReturns(t) == InFrame("spawn", t) /\ ~InFrame("spawn", t)' /\ thrown' = 0 /\ ~halted'

\* C1: a spawn whose unit completes with a result in its first synchronous
\* resume issues no identifier and creates no registry entry; the finish
\* callback is invoked, once, while the spawn is still executing; and when the
\* spawn returns, the task has no entry and no id and the handle's done() is true.
C1_FastPath ==
    [][\A t \in Tasks :
          /\ FirstResumeCompletes(t) =>
                /\ m_nextAwaiterID' = m_nextAwaiterID
                /\ m_awaiterEntries' = m_awaiterEntries
                /\ TopOpAfter = "cb" /\ TopAfter.t = t /\ TopAfter.kind = "finish"
                /\ InFrame("spawn", t)'
                /\ finishCalls'[t] = 1 /\ cancelCalls'[t] = 0
          /\ SpawnReturns(t) /\ unit[t] = "value" =>
                /\ m_nextAwaiterID' = m_nextAwaiterID
                /\ m_awaiterEntries' = m_awaiterEntries
                /\ awaiterID'[t] = 0
                /\ finishCalls'[t] = 1 /\ cancelCalls'[t] = 0
                /\ RunnerDone(After, t, 1)
      ]_vars

\* C1 happens: a task that finished in its spawn, which has returned.
C1_Witness ==
    \E t \in Tasks :
        /\ unit[t] = "value" /\ awaiterID[t] = 0 /\ ~InFrame("spawn", t)
        /\ finishCalls[t] = 1 /\ thrown = 0 /\ ~halted
        /\ m_awaiterEntries = [k \in {} |-> 0] /\ m_nextAwaiterID = 1

\* C2: for every spawned task the finish callback and the cancel callback are
\* never both invoked, and the one that is invoked is invoked exactly once, at
\* the moment the entry leaves the live set: no task has more than one
\* invocation to its name, and one whose entry has left the live set has one.
C2_ExactlyOneEndCallback ==
    \A t \in Tasks :
        /\ finishCalls[t] + cancelCalls[t] <= 1
        /\ awaiterID[t] # 0 /\ ~Live(t) => finishCalls[t] + cancelCalls[t] = 1

\* The destructor of a handle of task t is executing.
DtorInProgress(t) ==
    \E i \in 1 .. Len(stack) :
        stack[i].op = "Remove" /\ stack[i].kind = "dtor" /\ stack[i].t = t

\* The step starts the cancel callback of task t, and no other callback of it.
CancelStarts(t) ==
    /\ stack' # stack /\ Len(stack') >= Len(stack)
    /\ TopOpAfter = "cb" /\ TopAfter.t = t /\ TopAfter.kind = "cancel"
    /\ cancelCalls'[t] = Bump(cancelCalls[t])
    /\ finishCalls'[t] = finishCalls[t]

\* The step starts the finish callback of task t, and no other callback of it.
FinishStarts(t) ==
    /\ stack' # stack /\ Len(stack') >= Len(stack)
    /\ TopOpAfter = "cb" /\ TopAfter.t = t /\ TopAfter.kind = "finish"
    /\ finishCalls'[t] = Bump(finishCalls[t])
    /\ cancelCalls'[t] = cancelCalls[t]

InOwnStep(t) ==
    \E i \in 1 .. Len(stack) :
        stack[i].op = "body" /\ stack[i].kind = "update" /\ stack[i].t = t
StepEnds(t) ==
    /\ TopOp = "body" /\ TopFrame.kind = "update" /\ TopFrame.t = t
    /\ \E outcome \in {"suspended", "value", "fault"} : BodyReturn(outcome)

\* The step is a removal request (requestCancel or destruction of the handle)
\* for task t, made while update() is inside the resume of t.
SelfRemoval(t) ==
    /\ InOwnStep(t)
    /\ \E h \in Handles : RequestCancel(t, h) \/ Destroy(t, h)

\* The step is the end (return or exception) of the end callback that update()
\* called for task t.
EndCallbackEnds(t) ==
    /\ TopOp = "cb" /\ TopFrame.t = t
    /\ stack[Len(stack) - 1].op = "update"
    /\ \E throws \in BOOLEAN, ub \in {"none", "crash"} : CallbackReturn(throws, ub)

\* C4, as claimed: a removal requested from inside the task's own resume step
\* fires no callback during the step, and the CANCEL callback fires right after
\* the resume returns, before the next entry is resumed, once.
C4_CancelAfterOwnStep ==
    [][\A t \in Tasks :
          /\ InOwnStep(t) /\ ~StepEnds(t) =>
                cancelCalls'[t] = cancelCalls[t] /\ finishCalls'[t] = finishCalls[t]
          /\ StepEnds(t) /\ m_currentAwaiterRemovalNeeded =>
                CancelStarts(t) /\ sweep' = sweep
      ]_vars

\* C4, amended: the request fires no callback and only sets the flag; right
\* after the resume returns, before the next entry is resumed, exactly one end
\* callback is invoked: the finish callback when the step completed the unit
\* with a result, the cancel callback otherwise; when that callback ends, the
\* entry is erased and the flag cleared.
C4_EndCallbackAfterOwnStep ==
    [][\A t \in Tasks :
          /\ SelfRemoval(t) =>
                /\ stack' = stack
                /\ m_awaiterEntries' = m_awaiterEntries
                /\ m_currentAwaiterRemovalNeeded'
          /\ InOwnStep(t) /\ ~StepEnds(t) =>
                cancelCalls'[t] = cancelCalls[t] /\ finishCalls'[t] = finishCalls[t]
          /\ StepEnds(t) /\ m_currentAwaiterRemovalNeeded =>
                /\ sweep' = sweep
                /\ Live(t)'
                /\ IF unit'[t] = "value" THEN FinishStarts(t) ELSE CancelStarts(t)
          /\ EndCallbackEnds(t) =>
                /\ ~Live(t)'
                /\ ~m_currentAwaiterRemovalNeeded'
                /\ cancelCalls'[t] = cancelCalls[t] /\ finishCalls'[t] = finishCalls[t]
      ]_vars

\* C4 happens: update() has resumed task t, the step asked for t's removal and
\* suspended, and the cancel callback runs, the flag still set.
C4_Witness ==
    \E t \in Tasks :
        /\ TopOp = "cb" /\ TopFrame.t = t /\ TopFrame.kind = "cancel"
        /\ Len(stack) = 2 /\ stack[1].op = "update"
        /\ m_currentAwaiterRemovalNeeded /\ Current(t)
        /\ unit[t] = "suspended" /\ cancelCalls[t] = 1 /\ finishCalls[t] = 0

\* The ids update() has resumed, and the task an id was issued to.
Swept      == {sweep[i] : i \in 1 .. Len(sweep)}
TaskOf(id) == CHOOSE t \in Tasks : awaiterID[t] = id

\* update() goes on from the entry of task t: the next entry of the map is
\* resumed, or there is none and update() returns, throwing what it captured.
GoesOnAfter(t) ==
    LET it == NextEntry(m_awaiterEntries', awaiterID[t])
    IN  IF it = 0
        THEN stack' = <<>> /\ thrown' \in faults'
        ELSE /\ Len(stack') = 2
             /\ TopOpAfter = "body" /\ TopAfter.id = it
             /\ sweep' = Append(sweep, it)

\* C5: an end callback that raises during update() stops nothing: the sweep
\* goes on with the next entry, every entry that ends its step finished or
\* flagged gets its end callback and is erased, and when update() returns every
\* entry still registered has been resumed in it and is suspended, and every
\* entry that it resumed and that finished is erased, its callback invoked.
C5_FaultDoesNotStopSweep ==
    /\ [](stack = <<>> /\ faults # {} =>
            /\ ~m_currentAwaiterRemovalNeeded
            /\ \A id \in DOMAIN m_awaiterEntries :
                  id \in Swept /\ unit[m_awaiterEntries[id]] = "suspended"
            /\ \A id \in Swept :
                  Done(unit[TaskOf(id)]) =>
                      /\ id \notin DOMAIN m_awaiterEntries
                      /\ finishCalls[TaskOf(id)] + cancelCalls[TaskOf(id)] >= 1)
    /\ [][\A t \in Tasks :
            /\ StepEnds(t) /\ faults # {} =>
                  IF m_currentAwaiterRemovalNeeded \/ Done(unit'[t])
                  THEN FinishStarts(t) \/ CancelStarts(t)
                  ELSE GoesOnAfter(t)
            /\ EndCallbackEnds(t) /\ faults' # {} =>
                  ~Live(t)' /\ GoesOnAfter(t)
       ]_vars

\* C5 happens: update() has returned; the end callback of the first entry it
\* resumed raised, and the second entry was resumed, finished and got its
\* finish callback after that.
C5_Witness ==
    /\ stack = <<>> /\ Len(sweep) = 2
    /\ TaskOf(sweep[1]) \in faults
    /\ unit[TaskOf(sweep[2])] = "value"
    /\ finishCalls[TaskOf(sweep[2])] = 1
    /\ TaskOf(sweep[2]) \notin faults
    /\ m_awaiterEntries = [k \in {} |-> 0]

\* update() is executing; the fault it has captured so far (0 = none).
InUpdate == stack # <<>> /\ stack[1].op = "update"
Captured == stack[1].exc

\* C6: when end callbacks raise during one update(), update() throws to its
\* caller the fault of the failing entry with the lowest id, which is the first
\* it captured, and throws it only when no entry is left to process: while
\* entries remain the fault is held back and a later one does not replace it;
\* the failing entries are erased.
C6_FirstFaultAfterSweep ==
    /\ [](InUpdate =>
            /\ Captured = 0 <=> faults = {}
            /\ Captured # 0 => Captured \in faults
            /\ \A t \in faults : ~InFrame("cb", t) => ~Live(t))
    /\ [](stack = <<>> /\ sweep # <<>> =>
            /\ faults = {} <=> thrown = 0
            /\ faults # {} =>
                  /\ thrown \in faults
                  /\ \A t \in faults : awaiterID[thrown] <= awaiterID[t]
                  /\ \A t \in faults : ~Live(t)
                  /\ \A id \in DOMAIN m_awaiterEntries : id \in Swept)
    /\ [][\A t \in Tasks :
            EndCallbackEnds(t) /\ stack' # <<>> =>
                /\ thrown' = 0
                /\ Captured # 0 => Captured' = Captured
       ]_vars

\* C6 happens: update() has returned; the end callbacks of both entries raised
\* in it, and the caller has the fault of the first.
C6_Witness ==
    /\ stack = <<>> /\ Len(sweep) = 2
    /\ faults = {TaskOf(sweep[1]), TaskOf(sweep[2])}
    /\ TaskOf(sweep[1]) # TaskOf(sweep[2])
    /\ thrown = TaskOf(sweep[1])

\* C7: within one update() the entries are resumed in strictly ascending order
\* of their ids, so none is resumed twice by it; and when it has returned, no
\* registered entry is left that it has not resumed.
C7_AscendingOnce ==
    /\ \A i, j \in 1 .. Len(sweep) : i < j => sweep[i] < sweep[j]
    /\ InUpdate => sweep # <<>> /\ m_currentAwaiterID = sweep[Len(sweep)]
    /\ stack = <<>> /\ sweep # <<>> =>
          \A id \in DOMAIN m_awaiterEntries : id \in Swept

\* C7 happens: update() has returned after resuming two entries, of which the
\* first is still registered.
C7_Witness ==
    /\ stack = <<>> /\ Len(sweep) = 2
    /\ sweep[1] \in DOMAIN m_awaiterEntries

\* The step is a call of Backend::Remove with the id of task t, which every
\* requestCancel and every destructor of a handle holding the id makes.
RemoveCalled(t) == \E h \in Handles : RequestCancel(t, h) \/ Destroy(t, h)

\* The step is the normal return of a Backend::Remove that found the entry of
\* task t and called its end callback.
RemoveReturns(t) ==
    /\ TopOp = "cb"
    /\ stack[Len(stack) - 1].op = "Remove" /\ stack[Len(stack) - 1].t = t
    /\ \E throws \in BOOLEAN, ub \in {"none", "crash"} : CallbackReturn(throws, ub)
    /\ thrown' = 0 /\ ~halted'

\* C8: Remove(id) of a live entry that is not the one being resumed starts the
\* entry's cancel callback inside the call, and the entry is gone when the call
\* returns; an entry that is not live (removed by a lower entry, say) is never
\* resumed by the sweep; Remove(id) of an id that is not live invokes nothing
\* and changes nothing in the registry.
C8_RemoveIsSynchronous ==
    [][/\ \A t \in Tasks :
            /\ RemoveCalled(t) /\ Live(t) /\ ~Current(t) =>
                  /\ CancelStarts(t)
                  /\ Len(stack') = Len(stack) + 2
                  /\ stack'[Len(stack) + 1].op = "Remove"
                  /\ stack'[Len(stack) + 1].id = awaiterID[t]
            /\ RemoveReturns(t) => ~Live(t)'
            /\ RemoveCalled(t) /\ ~Live(t) =>
                  /\ stack' = stack
                  /\ m_awaiterEntries' = m_awaiterEntries
                  /\ m_nextAwaiterID' = m_nextAwaiterID
                  /\ m_currentAwaiterID' = m_currentAwaiterID
                  /\ m_currentAwaiterRemovalNeeded' = m_currentAwaiterRemovalNeeded
                  /\ unit' = unit
                  /\ finishCalls' = finishCalls /\ cancelCalls' = cancelCalls
       /\ sweep' # sweep /\ sweep' # <<>> =>
            sweep'[Len(sweep')] \in DOMAIN m_awaiterEntries
      ]_vars

\* C8 happens: update() is inside the resume of task t, which has removed the
\* suspended task u registered after it: u's cancel callback has run, its entry
\* is gone, and control is back in t's step.
C8_Witness ==
    \E t, u \in Tasks :
        /\ InUpdate /\ Len(stack) = 2 /\ TopOp = "body" /\ TopFrame.t = t
        /\ sweep = <<awaiterID[t]>>
        /\ awaiterID[u] > awaiterID[t]
        /\ ~Live(u) /\ unit[u] = "suspended"
        /\ cancelCalls[u] = 1 /\ finishCalls[u] = 0
        /\ thrown = 0 /\ ~halted

\* Cancellation of task t has been requested: Remove has called its cancel
\* callback, or has flagged it as the entry being resumed.
CancelRequested(t) ==
    \/ cancelCalls[t] >= 1
    \/ Current(t) /\ m_currentAwaiterRemovalNeeded

\* The step starts a resume of the unit of task t.
ResumeStarts(t) == unit[t] # "running" /\ unit'[t] = "running"

\* C9: once cancellation of a registered task has been requested, no resume of
\* its unit is started any more.
C9_NoResumeAfterCancel ==
    [][\A t \in Tasks : CancelRequested(t) => ~ResumeStarts(t)]_vars

\* Backend::Add has returned id to a spawn.
Issued(id) == \E t \in Tasks : awaiterID[t] = id

\* C10: IsDone(id) is true exactly when id has been issued and its entry is
\* gone from the map or holds a finished unit, so it is false for a registered
\* unfinished entry and for an id not yet issued; every id issued is larger than
\* all issued before it and none is issued twice or changed; and what IsDone
\* has once answered with true, it answers with true ever after.
C10_IsDone ==
    /\ [](/\ \A id \in IDs :
               IsDone(State, id) <=>
                   /\ Issued(id)
                   /\ \/ id \notin DOMAIN m_awaiterEntries
                      \/ Done(unit[TaskOf(id)])
          /\ \A id \in DOMAIN m_awaiterEntries :
               Issued(id) /\ m_awaiterEntries[id] = TaskOf(id)
          /\ \A t, u \in Tasks : t # u /\ awaiterID[t] # 0 => awaiterID[t] # awaiterID[u])
    /\ [][/\ \A id \in IDs : IsDone(State, id) => IsDone(After, id)
          /\ \A t \in Tasks :
               IF awaiterID[t] = 0
               THEN awaiterID'[t] # 0 => \A u \in Tasks : awaiterID'[t] > awaiterID[u]
               ELSE awaiterID'[t] = awaiterID[t]
       ]_vars

\* C10 happens: of two ids issued, the first belongs to an unfinished unit whose
\* entry has been removed, and IsDone is true of it; the second is registered
\* and unfinished, and IsDone is false of it, as of the id not yet issued.
C10_Witness ==
    \E t, u \in Tasks :
        /\ awaiterID[t] = 1 /\ awaiterID[u] = 2
        /\ ~Live(t) /\ unit[t] = "suspended" /\ IsDone(State, 1)
        /\ Live(u) /\ unit[u] = "suspended" /\ ~IsDone(State, 2)
        /\ m_nextAwaiterID = 3 /\ ~IsDone(State, 3)

\* C11: when resume() is called on a unit whose nested sub-unit is pending, the
\* sub-unit is resumed first (the innermost pending one executes), and as long
\* as the sub-unit is unfinished the outer unit's body does not execute in that
\* call: it stays suspended at its co_await, the sub-unit still pending.
C11_SubUnitFirst ==
    \A u \in Units :
        LET c == pending[u]
        IN  c # 0 =>
              /\ pending[c] = 0 => c \in ran
              /\ u \in ran => CoDone(CoState, c)
              /\ ~CoDone(CoState, c) =>
                    /\ coro[u] = "suspended"
                    /\ m_pSubAwaiter[u] = c

\* resume() on unit 1 has returned: its sub-unit 2 executed and is unfinished,
\* and the body of unit 1 did not execute.
C11_Witness ==
    /\ coStack = <<>>
    /\ pending[1] = 2
    /\ ~CoDone(CoState, 2)
    /\ ran = {2}

\* C12: value() on a unit that has not completed fails with the "not
\* completed" error and consumes nothing; on a completed unit the first call
\* returns the result the body returned, or rethrows the exception that left
\* the body, and every later call fails with the "only once" error.
C12_ValueOnce ==
    [][ HostValue =>
          /\ ~CoDone(CoState, 1) =>
                /\ ret' = Outcome("not completed", 0)
                /\ m_resultConsumed' = m_resultConsumed
          /\ (CoDone(CoState, 1) /\ valueCalls = 0) =>
                /\ ret' = m_value[1]
                /\ ret'.kind \in {"value", "exception"}
          /\ (CoDone(CoState, 1) /\ valueCalls > 0) =>
                ret' = Outcome("only once", 0)
      ]_<<vars, coVars, cmbVars, tfsVars, auxVars>>

\* Unit 1 completed with a result and value() has been called on it at least
\* twice since: the last call failed.
C12_Witness ==
    /\ CoDone(CoState, 1)
    /\ m_value[1].kind = "value"
    /\ valueCalls = 2
    /\ ret = Outcome("only once", 0)

\* C19: an exception that leaves the body of a unit does not leave the unit's
\* resume(): it is set into the unit's promise and the unit is done.  If a
\* parent is awaiting the unit, the exception is thrown into the parent's body
\* at its co_await within the same step; otherwise resume() returns to the
\* program with nothing thrown, and the program's first value() rethrows it.
\* An exception is in flight only in a body whose awaited unit ended with it.
C19_FaultIsCaptured ==
    [][ /\ unhandled_exception =>
              LET u == Executing
              IN  /\ coro'[u] = "final"
                  /\ m_isResultSet'[u]
                  /\ m_value'[u].kind = "exception"
                  /\ ret' = ret
                  /\ IF Len(coStack) > 1
                     THEN /\ Executing' = coStack[Len(coStack) - 1].u
                          /\ coStack[Len(coStack) - 1].c = u
                          /\ inflight' = m_value'[u]
                          /\ m_resultConsumed'[u]
                     ELSE /\ coStack' = <<>>
                          /\ inflight' = NoOutcome
        /\ (HostValue /\ m_value[1].kind = "exception" /\ valueCalls = 0) =>
              ret' = m_value[1]
        /\ inflight' # NoOutcome =>
              /\ Executing' \in 1 .. MaxChain - 1
              /\ coro'[Executing' + 1] = "final"
              /\ inflight' = m_value'[Executing' + 1]
      ]_<<vars, coVars, cmbVars, tfsVars, auxVars>>

\* Unit 2 ended with an exception in a resume() that reached it through the
\* sub-awaiter of unit 1, and the exception is now in the body of unit 1.
C19_Witness ==
    /\ pending[1] = 2
    /\ CoDone(CoState, 2)
    /\ Executing = 1
    /\ inflight = Outcome("exception", 2)

\* The arguments that were not done when the tick running or just over began.
UnfinishedAtTick == {i \in Args : finishedAt[i] \in {-1, tick}}

\* The last tick in which an argument finished, 0 = none finished in a tick.
LastFinish == CHOOSE n \in 0 .. MaxTicks :
                /\ \A i \in Args : finishedAt[i] <= n
                /\ n = 0 \/ \E i \in Args : finishedAt[i] = n

\* C13: in every tick All resumes each argument that is not done yet exactly
\* once, in argument order, and no argument that is done; its task is not done
\* while an argument is unfinished and completes in the tick in which the last
\* one finishes (the first tick if all were done before the call); when no
\* argument ended with an exception it returns the tuple of the values the
\* arguments returned, in argument order.
C13_All ==
    (combinator = "All" /\ tick >= 1 /\ task.coro # "destroyed") =>
        /\ \A a, b \in 1 .. Len(resumed) : a < b => resumed[a] < resumed[b]
        /\ {resumed[a] : a \in 1 .. Len(resumed)} = UnfinishedAtTick
        /\ task.coro = "final" <=> \A i \in Args : finishedAt[i] >= 0
        /\ task.coro = "final" =>
              /\ completedAt = IF LastFinish = 0 THEN 1 ELSE LastFinish
              /\ (\A i \in Args : args[i].m_value.kind = "value") =>
                    /\ task.m_value = Outcome("tuple", 0)
                    /\ \A i \in Args : task.tuple[i] = args[i].m_value

\* All(A, B): A finished in tick 1 and B in tick 3, where All completed with
\* their two different values.
C13_Witness ==
    /\ combinator = "All"
    /\ finishedAt[1] = 1 /\ finishedAt[MaxArgs] = 3
    /\ completedAt = 3
    /\ task.m_value = Outcome("tuple", 0)
    /\ task.tuple[1] # task.tuple[MaxArgs]

\* An argument was done before the call.
DoneAtEntry == \E i \in Args : finishedAt[i] = 0

\* C14: the task of Any is done exactly when some argument has finished.  If an
\* argument was done before the call it completes at its first resume without
\* resuming any argument; otherwise it completes in the first tick in which an
\* argument finishes, after resuming every argument once in argument order in
\* that tick.  When no finished argument ended with an exception, slot i of
\* the tuple holds the value of argument i if argument i is done at that
\* moment and is absent if it is not.
C14_Any ==
    (combinator = "Any" /\ tick >= 1 /\ task.coro # "destroyed") =>
        /\ task.coro = "final" <=> \E i \in Args : finishedAt[i] >= 0
        /\ task.coro = "final" =>
              /\ IF DoneAtEntry
                 THEN /\ completedAt = 1
                      /\ \A i \in Args : finishedAt[i] \in {-1, 0}
                      /\ resumed = <<>>
                 ELSE /\ \A i \in Args : finishedAt[i] \in {-1, completedAt}
                      /\ tick = completedAt => resumed = [k \in 1 .. MaxArgs |-> k]
              /\ (\A i \in Args : args[i].m_value.kind # "exception") =>
                    /\ task.m_value = Outcome("tuple", 0)
                    /\ \A i \in Args :
                          task.tuple[i] = IF finishedAt[i] >= 0
                                          THEN args[i].m_value
                                          ELSE NoOutcome

\* Any(A, B) completed in tick 2, in which both arguments finished: both slots
\* of the tuple are present.
C14_Witness ==
    /\ combinator = "Any"
    /\ completedAt = 2
    /\ \A i \in Args : finishedAt[i] = 2
    /\ \A i \in Args : task.tuple[i].kind = "value"

\* C15 as stated: in a tick after the one in which Any completed, every
\* argument that is still unfinished is resumed.
C15_SiblingKeepsRunning ==
    (combinator = "Any" /\ task.coro = "final" /\ tick > completedAt) =>
        \A i \in Args :
            finishedAt[i] = -1 => \E a \in 1 .. Len(resumed) : resumed[a] = i

\* C15: once Any has completed, an argument that is unfinished is never resumed
\* again: in every later step it stays exactly as it was, until the task of
\* Any is destroyed and the argument with it.
C15_SiblingIsAbandoned ==
    [][ (combinator = "Any" /\ task.coro = "final") =>
          /\ resumed' = <<>> \/ resumed' = resumed
          /\ \A i \in Args :
                args[i].coro # "final" =>
                    \/ args'[i] = args[i]
                    \/ /\ task'.coro = "destroyed"
                       /\ args'[i] = [args[i] EXCEPT !.coro = "destroyed"]
      ]_<<vars, coVars, cmbVars, tfsVars, auxVars>>

\* Any(A, B) completed in a tick in which A finished and B did not, and a later
\* tick has passed: B is suspended where it was.
C15_Witness ==
    /\ combinator = "Any"
    /\ task.coro = "final"
    /\ finishedAt[1] = completedAt
    /\ tick > completedAt
    /\ finishedAt[MaxArgs] = -1
    /\ args[MaxArgs].coro = "suspended"

\* Argument i ended with an exception when resumed in a tick.
FaultedInTick(i) == finishedAt[i] >= 1 /\ args[i].m_value.kind = "exception"

\* C16 as stated: when an argument of Any ends with an exception in tick k, Any
\* completes in tick k and the exception it ends with is that argument's.
C16_ThatFaultIsRaised ==
    (combinator = "Any" /\ tick >= 1) =>
        \A i \in Args :
            FaultedInTick(i) =>
                /\ completedAt = finishedAt[i]
                /\ task.m_value = args[i].m_value

\* C16: when an argument of Any ends with an exception in tick k, Any completes
\* in tick k with the exception of an argument that ended with one in tick k:
\* that argument's if it is the only one, whatever the others did.
C16_AFaultIsRaised ==
    (combinator = "Any" /\ tick >= 1) =>
        \A i \in Args :
            FaultedInTick(i) =>
                /\ completedAt = finishedAt[i]
                /\ \E j \in Args : /\ FaultedInTick(j)
                                   /\ finishedAt[j] = completedAt
                                   /\ task.m_value = args[j].m_value
                /\ (\A j \in Args \ {i} : ~FaultedInTick(j)) =>
                        task.m_value = args[i].m_value

\* Any(A, B): both ended with an exception in tick 2, and Any ended in tick 2
\* with the exception of B.
C16_Witness ==
    /\ combinator = "Any"
    /\ completedAt = 2
    /\ finishedAt[1] = 2 /\ FaultedInTick(1)
    /\ finishedAt[MaxArgs] = 2 /\ FaultedInTick(MaxArgs)
    /\ task.m_value = args[MaxArgs].m_value

\* C17: when an argument of All ends with an exception in tick k, All completes
\* in tick k with an exception, whether or not the other arguments have
\* finished.
C17_AllFailsFast ==
    (combinator = "All" /\ tick >= 1) =>
        \A i \in Args :
            FaultedInTick(i) =>
                /\ completedAt = finishedAt[i]
                /\ task.m_value.kind = "exception"

\* The step ends a resume of the unit of task t with an exception.
FaultEnds(t) ==
    /\ TopOp = "body" /\ TopFrame.t = t
    /\ BodyReturn("fault")

\* The step is the return of the cancel callback that the catch block of a
\* finish wrapper called for task t.
CatchBlockEnds(t) ==
    /\ TopOp = "cb" /\ TopFrame.t = t /\ TopFrame.rethrow
    /\ \E throws \in BOOLEAN, ub \in {"none", "crash"} : CallbackReturn(throws, ub)

\* C18 as stated: whenever the cancel callback of a task is invoked, the unit
\* of the task has not terminated.
C18_NoCancelOnFault ==
    [][\A t \in Tasks : CancelStarts(t) => ~Done(unit'[t])]_vars

\* C18: the cancel callback of a task is invoked either by a removal of the
\* task whose unit is unfinished (Remove on its entry, or the end of the step
\* in which removal was requested), or by the catch block of a finish wrapper
\* when the unit has terminated with an exception, never for a unit that
\* returned.  A unit that terminates with an exception in a tick does get its
\* cancel callback invoked, and when that callback is over the exception is
\* thrown on without the finish callback being invoked.
C18_CancelOnRemovalOrFault ==
    [][\A t \in Tasks :
          /\ CancelStarts(t) =>
                /\ unit'[t] # "value"
                /\ \/ /\ unit'[t] = "suspended" /\ ~TopAfter.rethrow
                      /\ RemoveCalled(t) \/ (StepEnds(t) /\ m_currentAwaiterRemovalNeeded)
                   \/ /\ unit'[t] = "fault" /\ TopAfter.rethrow
                      /\ FaultEnds(t) \/ Spawn(t, "fault")
          /\ (StepEnds(t) /\ unit'[t] = "fault") =>
                CancelStarts(t) /\ TopAfter.rethrow
          /\ CatchBlockEnds(t) =>
                /\ finishCalls'[t] = finishCalls[t]
                /\ stack[Len(stack) - 1].op = "spawn" => thrown' = t
                /\ stack[Len(stack) - 1].op = "update" => t \in faults'
      ]_vars

\* The unit of a registered task terminated with an exception in a tick, and
\* its cancel callback is running, called by the catch block.
C18_Witness ==
    \E t \in Tasks :
        /\ TopOp = "cb" /\ TopFrame.t = t /\ TopFrame.kind = "cancel" /\ TopFrame.rethrow
        /\ stack[Len(stack) - 1].op = "update"
        /\ unit[t] = "fault" /\ cancelCalls[t] = 1 /\ finishCalls[t] = 0

\* The k-th recorded call is the requestFinish that returned true.
Accepted(k) == calls[k].op = "requestFinish" /\ calls[k].out = Outcome("true", 0)

\* requestFinish returns true on its first call and false on every later one,
\* on both kinds of TaskFinishSource.
FinishOnce ==
    /\ \A k \in 1 .. Len(calls) :
          calls[k].op = "requestFinish" =>
              (Accepted(k) <=> \A j \in 1 .. k - 1 : calls[j].op # "requestFinish")
    /\ \A k \in 1 .. Len(voidCalls) : voidCalls[k] <=> k = 1

\* C20 as stated: requestFinish returns true exactly once, on the first call;
\* after the successful requestFinish the first result() returns the value
\* given to it and every later result() fails, whatever waitForResult() tasks
\* ran in between.
C20_FirstResultReturns ==
    /\ FinishOnce
    /\ \A f, k \in 1 .. Len(calls) :
          (Accepted(f) /\ f < k /\ calls[k].op = "result") =>
              IF \A j \in f + 1 .. k - 1 : calls[j].op # "result"
              THEN calls[k].out = Outcome("value", calls[f].arg)
              ELSE calls[k].out = Outcome("only once", 0)

\* C20: requestFinish returns true exactly once, on the first call, also after
\* the result was consumed; after the successful requestFinish a result() call
\* returns the value given to it if neither a result() call nor a
\* waitForResult() task has returned it before, and fails otherwise.
C20_ResultOnce ==
    /\ FinishOnce
    /\ \A f, k \in 1 .. Len(calls) :
          (Accepted(f) /\ f < k /\ calls[k].op = "result") =>
              IF \A j \in f + 1 .. k - 1 : calls[j].op \notin {"result", "waitForResult"}
              THEN calls[k].out = Outcome("value", calls[f].arg)
              ELSE calls[k].out = Outcome("only once", 0)

\* requestFinish succeeded, a waitForResult() task returned the value, the
\* result() called after that failed, and a second requestFinish was refused.
C20_Witness ==
    /\ Len(calls) = 4
    /\ Accepted(1)
    /\ calls[2] = Called("waitForResult", 0, Outcome("value", calls[1].arg))
    /\ calls[3] = Called("result", 0, Outcome("only once", 0))
    /\ calls[4].op = "requestFinish" /\ calls[4].out = Outcome("false", 0)

\* C21: the result of a TaskFinishSource is delivered at most once: after a
\* result() or a waitForResult() task has returned it, no later result() and
\* no later waitForResult() task returns it.
C21_DeliveredOnce ==
    \A j, k \in 1 .. Len(calls) :
        (calls[j].out.kind = "value" /\ calls[k].out.kind = "value") => j = k

\* C22 as stated: once requestFinish has succeeded, a waitForResult() task that
\* is resumed completes and returns the value that was set, whatever else was
\* done with the source.
C22_WaiterAlwaysCompletes ==
    [][\A w \in Waiters : \A f \in 1 .. Len(calls) :
          (WaiterResume(w) /\ Accepted(f)) =>
              waiters'[w] = [coro |-> "final", m_value |-> Outcome("value", calls[f].arg)]
      ]_<<vars, coVars, cmbVars, tfsVars, auxVars>>

\* C22: once requestFinish has succeeded and until a result() returns the
\* value, the source holds it, and a waitForResult() task that is resumed
\* completes in that resume and returns it, whether it was created before or
\* after requestFinish; once a result() has returned the value the source is
\* empty for good and a waitForResult() task that is resumed only suspends.
C22_WaiterCompletesUnlessTaken ==
    [][LET Taken(c) == \E k \in 1 .. Len(c) : c[k].op = "result" /\ c[k].out.kind = "value"
       IN  /\ \A f \in 1 .. Len(calls') :
                 (Accepted(f)' /\ ~Taken(calls')) => source'.m_result = calls'[f].arg
           /\ Taken(calls') => ~hasResult(source')
           /\ \A w \in Waiters :
                 WaiterResume(w) =>
                     IF Taken(calls) \/ \A f \in 1 .. Len(calls) : ~Accepted(f)
                     THEN waiters'[w].coro = "suspended"
                     ELSE \E f \in 1 .. Len(calls) :
                              /\ Accepted(f)
                              /\ waiters'[w] = [coro |-> "final",
                                                m_value |-> Outcome("value", calls[f].arg)]
          ]_<<vars, coVars, cmbVars, tfsVars, auxVars>>

\* Two waitForResult() tasks, the first created before requestFinish succeeded
\* and resumed while the source was empty, have completed and returned the
\* value that was set.
C22_Witness ==
    /\ Len(calls) = 3
    /\ Accepted(1)
    /\ calls[1].arg = MaxResult
    /\ \A w \in Waiters : waiters[w] = [coro |-> "final", m_value |-> Outcome("value", MaxResult)]

\* C23 as stated: UpdaterTask with a finish source invokes its callback exactly
\* once per resume, the first time in the first resume; it completes in the
\* resume in which the callback first calls requestFinish and returns the value
\* given to that call; it never invokes the callback afterwards.
C23_CompletesOnRequestFinish ==
    \A k \in 1 .. Len(resumes) :
        /\ resumes[k].invoked = IF k = 1 \/ ~resumes[k - 1].done THEN 1 ELSE 0
        /\ (resumes[k].first # 0 /\ \A j \in 1 .. k - 1 : resumes[j].first = 0)
               => (resumes[k].done /\ resumes[k].ret = Outcome("value", resumes[k].first))

\* C23: as above, provided the callback has not taken the value out of the
\* source with result(); if it has, the task never returns a value, and it
\* ends in that resume only with an exception of the callback.
C23_CompletesUnlessTaken ==
    \A k \in 1 .. Len(resumes) :
        /\ resumes[k].invoked = IF k = 1 \/ ~resumes[k - 1].done THEN 1 ELSE 0
        /\ (resumes[k].first # 0 /\ \A j \in 1 .. k - 1 : resumes[j].first = 0)
               => IF resumes[k].took
                  THEN /\ resumes[k].done => resumes[k].ret.kind = "fault"
                       /\ \A j \in k .. Len(resumes) : resumes[j].ret.kind # "value"
                  ELSE resumes[k].done /\ resumes[k].ret = Outcome("value", resumes[k].first)

\* The callback did not call requestFinish in the first resume and called it in
\* the second; the task completed there with that value and was resumed again.
C23_Witness ==
    /\ Len(resumes) = 3
    /\ resumes[1] = [invoked |-> 1, first |-> 0, took |-> FALSE, done |-> FALSE, ret |-> NoOutcome]
    /\ resumes[2] = [invoked |-> 1, first |-> MaxResult, took |-> FALSE, done |-> TRUE,
                     ret |-> Outcome("value", MaxResult)]
    /\ resumes[3].invoked = 0

\* C24: the callbacks one call() invokes are invoked in ascending order of
\* (sortingOrder, id), equal sortingOrder in order of id, so each at most once;
\* the sortingOrder is the one evaluated when the call began; and when the
\* call has returned, every entry that was registered when it began and still
\* is has been invoked.
C24_AscendingOnce ==
    [][/\ ExecutorCall =>
              snapshot' = {[id |-> k.id, sortingOrder |-> sortingOrderFunc[k.id]] : k \in m_callers}
       /\ \A i, j \in 1 .. Len(invoked') :
              i < j => \/ invoked'[i].sortingOrder < invoked'[j].sortingOrder
                       \/ /\ invoked'[i].sortingOrder = invoked'[j].sortingOrder
                          /\ invoked'[i].id < invoked'[j].id
       /\ (cursor'.id = 0 /\ ~crashed') =>
              \A k \in snapshot' \cap m_callers' : \E i \in 1 .. Len(invoked') : invoked'[i] = k
      ]_<<vars, coVars, cmbVars, tfsVars, auxVars>>

\* Callers registered with sortingOrder 2, 1, 1 in that order: a call() has
\* invoked the second, the third and then the first.
C24_Witness ==
    /\ cursor.id = 0
    /\ invoked = <<[id |-> 2, sortingOrder |-> 1], [id |-> 3, sortingOrder |-> 1],
                   [id |-> 1, sortingOrder |-> MaxOrder]>>

\* C25: a change of what an entry's sortingOrderFunc returns while call() is
\* running changes neither the keys of the map nor the entry call() goes to
\* next; when the next call() begins every entry is keyed by the value its
\* sortingOrderFunc returns then, under the id it had.
C25_RebucketedAtNextCall ==
    [][/\ ( /\ cursor.id # 0 /\ ~crashed'
            /\ sortingOrderFunc' # sortingOrderFunc
            /\ {k.id : k \in m_callers'} = {k.id : k \in m_callers} )
              => (m_callers' = m_callers /\ cursor' = Following(m_callers, cursor))
       /\ ExecutorCall =>
              /\ {k.id : k \in m_callers'} = {k.id : k \in m_callers}
              /\ \A k \in m_callers' : k.sortingOrder = sortingOrderFunc[k.id]
              /\ Cardinality(m_callers') = Cardinality(m_callers)
      ]_<<vars, coVars, cmbVars, tfsVars, auxVars>>

\* Three callers of sortingOrder 1, 2, 2: during the call the third was given
\* sortingOrder 1, which would put it before the second, and the call has
\* invoked them as first, second, third.
C25_Witness ==
    /\ cursor.id = 0
    /\ invoked = <<[id |-> 1, sortingOrder |-> 1], [id |-> 2, sortingOrder |-> 2],
                   [id |-> 3, sortingOrder |-> 2]>>
    /\ sortingOrderFunc[3] = 1
    /\ sortingOrderFunc[2] = 2

\* C26: call() never invokes the callback of an id for which remove has
\* returned, also not in the rest of the call during which another callback
\* removed it; remove of an id that is not registered changes nothing; an id
\* given to a new entry was never issued before.
C26_RemovedNeverInvoked ==
    [][/\ invoked' # invoked => \A i \in 1 .. Len(invoked') :
              (i > Len(invoked) \/ invoked' = <<>>) => invoked'[i].id \notin removed
       /\ \A e \in Statements :
              (e.op = "remove" /\ (\A k \in m_callers : k.id # e.id) /\ Statement(e))
                  => UNCHANGED <<m_nextID, m_callers, sortingOrderFunc, cursor, crashed,
                                 invoked, snapshot>>
       /\ \A k \in m_callers' :
              (\A j \in m_callers : j.id # k.id) => (m_nextID <= k.id /\ k.id < m_nextID')
       /\ m_nextID <= m_nextID'
      ]_<<vars, coVars, cmbVars, tfsVars, auxVars>>

\* A call() has returned that began with an entry which the callback of an
\* earlier entry removed, and which it did not invoke.
C26_Witness ==
    /\ cursor.id = 0
    /\ ~crashed
    /\ Len(invoked) = 1
    /\ \E k \in snapshot : k.id \in removed /\ KeyLess(invoked[1], k)
    /\ Cardinality(snapshot) = 2

C28_CancelIsIdempotent ==
    [][\A t \in Tasks :
          /\ cancelCalls'[t] <= 1
          /\ \A h \in Handles :
                /\ \A i \in 1 .. Len(stack) :
                      ( /\ stack[i].op = "Remove" /\ stack[i].kind = "requestCancel"
                        /\ stack[i].t = t /\ stack[i].h = h
                        /\ Len(stack') < i
                        /\ ~halted' )
                          => (~Held(t, h)' /\ (thrown' = 0 => cancelCalls'[t] = 1))
                /\ ((RequestCancel(t, h) \/ Destroy(t, h)) /\ ~Live(t) /\ ~Current(t))
                      => UNCHANGED <<m_awaiterEntries, unit, finishCalls, cancelCalls, stack>>
      ]_vars

\* C29: allDone() is true exactly when every aggregated runner is done, and
\* anyDone() exactly when at least one is; a waitUntilAllDone() /
\* waitUntilAnyDone() task completes in a resume exactly when the predicate
\* holds at that resume; with no runner allDone() is true and anyDone() false,
\* a waitUntilAllDone() task completes at its first resume and a
\* waitUntilAnyDone() task suspends at every resume.
C29_AllDoneAnyDone ==
    [][/\ allDone(m_runners) <=> {i \in 1 .. Len(m_runners) : ~m_runners[i]} = {}
       /\ anyDone(m_runners) <=> {i \in 1 .. Len(m_runners) : m_runners[i]} # {}
       /\ WaitUntilDone("all") =>
              (waitTask'.all = "final" <=> {i \in 1 .. Len(m_runners) : ~m_runners[i]} = {})
       /\ WaitUntilDone("any") =>
              (waitTask'.any = "final" <=> {i \in 1 .. Len(m_runners) : m_runners[i]} # {})
       /\ m_runners = <<>> =>
              /\ allDone(m_runners) /\ ~anyDone(m_runners)
              /\ WaitUntilDone("all") => waitTask'.all = "final"
              /\ WaitUntilDone("any") => waitTask'.any = "suspended"
      ]_<<vars, coVars, cmbVars, tfsVars, auxVars>>

\* With no runner, the waitUntilAllDone() task has completed and the
\* waitUntilAnyDone() task has been resumed and is suspended.
C29_Witness ==
    /\ m_runners = <<>>
    /\ waitTask = [all |-> "final", any |-> "suspended"]

C31_UninitializedFails ==
    [][(/\ ~s_pInstance
        /\ lastOp' # lastOp
        /\ lastOp'.op \notin {"Init", "release"})
       => (lastOp'.error /\ lastOp'.bodySteps = 0 /\ ~lastOp'.finishCallback)
      ]_<<vars, coVars, cmbVars, tfsVars, auxVars>>

\* C31, amended: while there is no instance, Add, IsDone, the manual tick,
\* the registration of callers and the queries raise an Error and run no
\* step of a task; Remove and the removals of callers return without an
\* Error and run nothing; a spawn runs the first step of a task that was not
\* done, and raises the Error exactly when the task did not finish in it.
C31_UninitializedFailsExceptRemoveAndSpawn ==
    [][(/\ ~s_pInstance
        /\ lastOp' # lastOp
        /\ lastOp'.op \notin {"Init", "release"})
       => LET o == lastOp'
          IN  /\ o.op \in {"Remove", "RemoveUpdateInputCaller", "RemoveDrawer"}
                    => ~o.error /\ o.bodySteps = 0 /\ ~o.finishCallback
              /\ o.op = "spawn" => (o.error <=> ~o.finishCallback)
              /\ o.op \notin {"Remove", "RemoveUpdateInputCaller", "RemoveDrawer", "spawn"}
                    => o.error /\ o.bodySteps = 0 /\ ~o.finishCallback
      ]_<<vars, coVars, cmbVars, tfsVars, auxVars>>

\* IsDone has raised its Error, and there is no instance.
C31_Witness ==
    ~s_pInstance /\ lastOp.op = "IsDone" /\ lastOp.error

\* C32: the driving thread never waits for progress made elsewhere: it never
\* stands in the destruction of an AsyncThread task while the function given
\* to the task is still running on its thread.
C32_DriverNeverWaits ==
    ~(asyncTask = "destroying" /\ worker = "running")

C34_DoneStaysAndResumeDoesNothing ==
    [][m_handle = "final"
       => /\ m_handle' = "final"
          /\ ownSteps' = ownSteps
          /\ resumeLog' # resumeLog => resumeLog' = <<>>
          /\ \A i \in 1 .. Len(m_concurrentTasksBefore) :
                m_concurrentTasksBefore'[i] = m_concurrentTasksBefore[i]
          /\ \A i \in 1 .. Len(m_concurrentTasksAfter) :
                m_concurrentTasksAfter'[i] = m_concurrentTasksAfter[i]
      ]_<<vars, coVars, cmbVars, tfsVars, auxVars>>

\* The task is done, one attached to it is not, and a resume() of the done
\* task has returned.
C34_Witness ==
    /\ m_handle = "final"
    /\ resumeLog = <<>>
    /\ \E i \in 1 .. Len(m_concurrentTasksAfter) : m_concurrentTasksAfter[i] = "suspended"

\* C38: an exception that ends the body of a task attached with with() is
\* thrown out of nothing: the resume() of the primary in which it happens
\* goes on with the calls that follow (the remaining Before tasks, the own
\* step, the After tasks), the primary's own step ends as its body ends it,
\* and value() of the primary raises an exception only when the primary's
\* own body ended with one.
C38_CompanionFaultGoesNowhere ==
    [][/\ \A o \in [own : {"suspended", "final"}, throws : BOOLEAN,
                     before : [1 .. MaxCompanions -> {"suspended", "final", "fault"}],
                     after : [1 .. MaxCompanions -> {"suspended", "final", "fault"}]] :
             (/\ ResumeWith(o)
              /\ m_handle # "final"
              /\ \/ \E i \in 1 .. Len(m_concurrentTasksBefore) :
                       m_concurrentTasksBefore[i] \notin {"final", "fault"}
                           /\ o.before[i] = "fault"
                 \/ \E i \in 1 .. Len(m_concurrentTasksAfter) :
                       m_concurrentTasksAfter[i] \notin {"final", "fault"}
                           /\ o.after[i] = "fault")
             => /\ m_handle' = o.own
                /\ ownFault' = o.throws
                /\ ownSteps' = ownSteps + 1
                /\ Len(resumeLog') = Len(m_concurrentTasksBefore) + 1
                                        + Len(m_concurrentTasksAfter)
                /\ valueRet' = valueRet
       /\ valueRet' = "exception" => ownFault'
       /\ (ValueWith /\ ~ownFault) => valueRet' = "value"
      ]_<<vars, coVars, cmbVars, tfsVars, auxVars>>

\* A Before task and an After task have ended with an exception, the primary
\* has returned, and value() of the primary has given its result.
C38_Witness ==
    /\ m_concurrentTasksBefore = <<"fault">>
    /\ m_concurrentTasksAfter = <<"fault">>
    /\ m_handle = "final"
    /\ ~ownFault
    /\ valueRet = "value"

\* C35, as stated: every task registered while an update() runs (spawned
\* from a body or a callback it called, and not finished in its first
\* resume) has been resumed by that update() when it returns.
C35_SpawnedInSweepIsResumed ==
    [][(stack # <<>> /\ stack[1].op = "update" /\ stack' = <<>>)
       => \A id \in stack[1].h .. (m_nextAwaiterID' - 1) :
             \E i \in 1 .. Len(sweep') : sweep'[i] = id
      ]_vars

\* C35, amended: a task registered while an update() runs gets an id greater
\* than every registered one, which is ahead of the iterator of the loop; and
\* when update() returns it has resumed every such task that is still
\* registered, so every one that was not removed before the loop reached it.
C35_SpawnedInSweepIsResumedIfKept ==
    [][/\ \A id \in IDs :
             (/\ stack # <<>> /\ stack[1].op = "update"
              /\ id \notin DOMAIN m_awaiterEntries
              /\ id \in DOMAIN m_awaiterEntries')
             => /\ \A k \in DOMAIN m_awaiterEntries : k < id
                /\ stack[1].id < id
       /\ (stack # <<>> /\ stack[1].op = "update" /\ stack' = <<>>)
          => \A id \in stack[1].h .. (m_nextAwaiterID' - 1) :
                id \in DOMAIN m_awaiterEntries'
                   => \E i \in 1 .. Len(sweep') : sweep'[i] = id
      ]_vars

\* An update() that began when the id 2 was not yet issued is resuming the
\* entry 2: the task was spawned during the resume of entry 1 and is now
\* making its second step, in the same tick.
C35_Witness ==
    /\ Len(stack) = 2
    /\ stack[1].op = "update" /\ stack[1].h = 2
    /\ stack[2].op = "body" /\ stack[2].id = 2
    /\ sweep = <<1, 2>>

\* C36: a sequential co_await adds no latency. The awaited unit makes its
\* first step in the step that begins the co_await; and in the step in which
\* the awaited unit finishes, be it that first step or a later resume()
\* delegated to it, the body of the awaiting unit goes on, after exactly as
\* many calls of its resume() as the units it awaited have suspended at
\* co_await NextFrame(): n for DelayFrame(n), none for n <= 0.
C36_AwaitAddsNoLatency ==
    [][\A p \in 1 .. MaxChain - 1 :
          /\ (coro[p + 1] = "none" /\ coro'[p + 1] # "none")
                => (p + 1) \in ran' \/ coro'[p + 1] = "final"
          /\ (coro[p + 1] \notin {"none", "final"} /\ coro'[p + 1] = "final")
                => /\ coro'[p] = "running"
                   /\ resumesSince'[p] = frames'[p]
      ]_<<vars, coVars, cmbVars, tfsVars, auxVars>>

\* Unit 2 has awaited nothing and has suspended twice at co_await
\* NextFrame(), as DelayFrame(2) does: unit 1, which awaits it, has passed
\* the co_await in its second resume() since.
C36_Witness ==
    /\ coro[1] = "running" /\ coro[2] = "final" /\ coro[3] = "none"
    /\ frames[1] = 2
    /\ resumesSince[1] = 2

\* C37: when Backend::Remove(id), called for a registered entry that is not
\* the current one, returns or is left by an exception of the entry's end
\* callback, the entry is no longer in m_awaiterEntries.
C37_RemovedEvenWhenCallbackRaises ==
    [][(/\ Len(stack) >= 2
        /\ stack[Len(stack)].op = "cb"
        /\ stack[Len(stack) - 1].op = "Remove"
        /\ Len(stack') = Len(stack) - 2
        /\ ~halted')
       => stack[Len(stack) - 1].id \notin DOMAIN m_awaiterEntries'
      ]_vars

\* C39: done() of a handle that holds no id is true, whatever the task it
\* was given is doing (after forget(), after requestCancel(), a deferred one
\* of the running task included, after the handle was moved from), and a
\* task of waitUntilDone() on such a handle ends in its first resume().
C39_NoIdIsDone ==
    \A t \in Tasks, h \in Handles :
        m_id[t][h] # "held"
            => RunnerDone(State, t, h) /\ waitUntilDone(State, t, h) = "final"

\* A task has cancelled itself through its handle while its step is running
\* (the removal is deferred, the entry registered, the unit not done), and
\* the handle of another registered, unfinished task has been forgotten.
C39_Witness ==
    \E t, u \in Tasks :
        /\ t # u
        /\ m_id[t][1] = "none" /\ m_id[t][2] = "none"
        /\ awaiterID[t] \in DOMAIN m_awaiterEntries
        /\ m_currentAwaiterID = awaiterID[t]
        /\ m_currentAwaiterRemovalNeeded
        /\ unit[t] = "running"
        /\ m_id[u][1] = "forgotten"
        /\ awaiterID[u] \in DOMAIN m_awaiterEntries
        /\ ~Done(unit[u])

\* C40: whatever add, remove and call() have been executed, with the values
\* of the sortingOrderFuncs changing as they like, m_callers and
\* m_callerKeyByID hold the same ids and the index leads each id to the key
\* its entry is stored at; none of the Errors of the executor has been
\* thrown; and the refreshSortingOrder() of a call() leaves the ids of the
\* entries and their number as they were.
C40_MapAndIndexAgree ==
    /\ [](/\ DOMAIN m_callerKeyByID = {k.id : k \in m_callers}
          /\ \A k \in m_callers : m_callerKeyByID[k.id] = k
          /\ executorError = "none")
    /\ [][ExecutorCall =>
              /\ {k.id : k \in m_callers'} = {k.id : k \in m_callers}
              /\ Cardinality(m_callers') = Cardinality(m_callers)
              /\ DOMAIN m_callerKeyByID' = DOMAIN m_callerKeyByID
         ]_<<vars, coVars, cmbVars, tfsVars, auxVars>>

\* A call() whose refreshSortingOrder() has put two entries under other keys
\* is in its loop, after an entry was removed, with every id of the model
\* issued and two entries under different priorities.
C40_Witness ==
    /\ cursor.id # 0
    /\ Cardinality(rebucketed) >= 2
    /\ rebucketed \subseteq DOMAIN m_callerKeyByID
    /\ removed # {}
    /\ m_nextID = MaxCallers + 1
    /\ \E k, j \in m_callers : k.sortingOrder # j.sortingOrder

=========================================================================
